---- MODULE Spec2Model ----
(***************************************************************************)
(* A model of rxfetch's PCI enumeration core: the fixed-capacity ArrayVec  *)
(* (src/src/arrayvec.rs), the hex field parsers (src/src/parse.rs) and the *)
(* sysfs and procfs backends and their automatic selection                *)
(* (src/src/pci/).                                                         *)
(*                                                                         *)
(* Bytes are naturals 0..255 and byte strings are sequences of bytes.      *)
(* Every component has its own specification; a specification holds the    *)
(* variables of the other components at their initial values.              *)
(***************************************************************************)
EXTENDS Integers, Sequences, FiniteSets, TLC

(***************************************************************************)
(* Bounds of the model.                                                    *)
(***************************************************************************)
\* the const generic CAP of the ArrayVec under check
CAP == 3
\* how many distinct elements are ever created (each element is a fresh id)
MaxId == 5
\* longest source slice / iterator handed to copy_from_slice, write, extend
MaxSlice == 4

VARIABLES
    size_of_T,  \* mem::size_of::<T>() of the element type
    arr,        \* ArrayVec.arr : slot index 0..CAP-1 -> element or Uninit
    len,        \* ArrayVec.len
    live,       \* TRUE while the ArrayVec exists (not dropped, not consumed)
    ub,         \* TRUE once a write outside arr has happened
    last,       \* the last operation: its name, arguments, result and writes
    next_id,    \* the next fresh element
    shadow,     \* the elements the buffer is meant to hold, in insertion order
    stored,     \* the elements ever stored in a buffer
    dropped,    \* element -> how many times the containers dropped it
    handed,     \* element -> how many times it was handed to the caller
    it_arr,     \* ArrayVecIter.arr
    it_idx,     \* ArrayVecIter.idx
    it_len,     \* ArrayVecIter.len
    it_live,    \* TRUE while an ArrayVecIter exists
    input,      \* the arguments of the parser call under check
    output,     \* what the parser call returned (NotCalled before it)
    dir,        \* the entries read_dir("/sys/bus/pci/devices") will produce
    dir_iter,   \* SysBusBackend.dir_iter: the entries not yet produced
    yielded,    \* the items next() has returned so far, in order
    item,       \* what the last call of next() returned
    path,       \* SysBusProvider.path
    fs,         \* the attribute file of the device directory being queried
    ret,        \* what the last attribute query / constructor returned
    pcidev,     \* the PciDevice handle being queried (NotCalled: none yet)
    proc,       \* the tree read_dir("/proc/bus/pci/") will produce
    bus_iter,   \* ProcBusBackend.bus_iter: first-level entries not yet read
    self_bus,   \* ProcBusBackend.bus: None or Some((devices left, bus))
    proc_yielded, \* the items ProcBusBackend::next has returned so far
    proc_item,  \* what the last call of ProcBusBackend::next returned
    roots,      \* which of the two backend root directories can be opened
    attempts,   \* the backends whose try_init has been called, in order
    auto_iter,  \* what PciAutoIter::try_init returned (NotCalled before it)
    pw_buf,     \* the Vec<u8> handed to PwuId::get: its capacity and length
    pw_attempt, \* PwuId::get: how many times try_get has been called
    pw_err,     \* PwuId::get: the err of the last try_get ("none": it was Ok)
    pw_ret      \* what PwuId::get returned (NotCalled while it is running)

avVars == <<size_of_T, arr, len, live, ub, last, next_id, shadow, stored,
            dropped, handed, it_arr, it_idx, it_len, it_live>>

parseVars == <<input, output>>

sysVars == <<dir, dir_iter, yielded, item, path, fs, ret>>

procVars == <<pcidev, proc, bus_iter, self_bus, proc_yielded, proc_item>>

autoVars == <<roots, attempts, auto_iter>>

pwVars == <<pw_buf, pw_attempt, pw_err, pw_ret>>

vars == <<avVars, parseVars, sysVars, procVars, autoVars, pwVars>>

(***************************************************************************)
(* ArrayVec<T, CAP>                                                        *)
(***************************************************************************)
\* a slot that holds no initialized value (MaybeUninit::uninit())
Uninit == 0
\* what a read past the end of the source slice finds there
Junk == 99

Ids == 1..MaxId
Slots == 0..(CAP - 1)

Min(a, b) == IF a < b THEN a ELSE b

Ok == [tag |-> "Ok", val |-> 0]
OkN(n) == [tag |-> "Ok", val |-> n]
Err(value) == [tag |-> "Err", val |-> value]
Some(value) == [tag |-> "Some", val |-> value]
None == [tag |-> "None", val |-> 0]
Unit == [tag |-> "()", val |-> 0]

NoOp == [op |-> "new", val |-> 0, src |-> <<>>, ret |-> Unit, writes |-> {},
         pre_len |-> 0]

new == [arr |-> [i \in Slots |-> Uninit], len |-> 0]

\* the index ranges of arr[len..] and arr[..len]
vacant(l) == l..(CAP - 1)
occupied(l) == 0..(l - 1)
spare_capacity(l) == CAP - l
is_full(l) == spare_capacity(l) = 0

as_slice(a, l) == [i \in 1..l |-> a[i - 1]]

try_push_accepts_when_full(a, l, value) ==
    IF vacant(l) = {}
    THEN [arr |-> a, len |-> l, ret |-> Ok, writes |-> {}]
    ELSE [arr |-> [a EXCEPT ![l] = value], len |-> l + 1, ret |-> Ok,
          writes |-> {l}]

try_push(a, l, value) ==
    IF vacant(l) = {}
    THEN [arr |-> a, len |-> l, ret |-> Err(value), writes |-> {}]
    ELSE [arr |-> [a EXCEPT ![l] = value], len |-> l + 1, ret |-> Ok,
          writes |-> {l}]

\* push: `_ = self.try_push(value)`: a rejected value is dropped on the spot
push(a, l, value) ==
    LET r == try_push(a, l, value)
    IN  [arr |-> r.arr, len |-> r.len, ret |-> Unit, writes |-> r.writes,
         discarded |-> IF r.ret.tag = "Err" THEN {r.ret.val} ELSE {}]

pop_first(a, l) ==
    IF l = 0
    THEN [arr |-> a, len |-> l, ret |-> None]
    ELSE [arr |-> a, len |-> l - 1, ret |-> Some(a[0])]

pop(a, l) ==
    IF l = 0
    THEN [arr |-> a, len |-> l, ret |-> None]
    ELSE [arr |-> a, len |-> l - 1, ret |-> Some(a[l - 1])]

\* extend: push items while there is spare capacity; rest stays in the iterator
RECURSIVE extend(_, _, _)
extend(a, l, items) ==
    IF spare_capacity(l) > 0 /\ items # <<>>
    THEN LET r == push(a, l, Head(items))
         IN  extend(r.arr, r.len, Tail(items))
    ELSE [arr |-> a, len |-> l, rest |-> items]

\* copy_from_slice: len = min(vacant.len(), slice.len()), and then
\* copy_from_nonoverlapping(src, size_of::<T>() * len) copies that many
\* ELEMENTS from the start of the slice to the start of the vacant region.
\* `writes` are the slot indices written (an index >= CAP lies past arr), and a
\* source index past the slice reads whatever lies there (Junk).
copy_from_slice(a, l, slice, sz) ==
    LET n == Min(Cardinality(vacant(l)), Len(slice))
        count == sz * n
        writes == {l + i : i \in 0..(count - 1)}
        src(i) == IF i < Len(slice) THEN slice[i + 1] ELSE Junk
    IN  [arr |-> [j \in Slots |-> IF j \in writes THEN src(j - l) ELSE a[j]],
         len |-> l + n,
         writes |-> writes,
         copied |-> n]

\* Write for ArrayVec<u8, CAP>: Ok(len after - len before)
write(a, l, buf) ==
    LET r == copy_from_slice(a, l, buf, 1)
    IN  [arr |-> r.arr, len |-> r.len, ret |-> OkN(r.len - l),
         writes |-> r.writes]

\* into_raw: self.len = 0, the array is moved out; self is then dropped
into_raw_keeps_len(a, l) == [ret |-> a, self_len |-> l]

into_raw(a, l) == [ret |-> a, self_len |-> 0]

\* Drop for ArrayVec: every element of occupied() is dropped
drop_elems(a, l) == {a[i] : i \in occupied(l)}

Bump(f, S) == [x \in DOMAIN f |-> IF x \in S THEN f[x] + 1 ELSE f[x]]

Fresh(k) == [i \in 1..k |-> next_id + i - 1]

AVInit ==
    /\ size_of_T \in {1, 2}
    /\ arr = new.arr
    /\ len = new.len
    /\ live = TRUE
    /\ ub = FALSE
    /\ last = NoOp
    /\ next_id = 1
    /\ shadow = <<>>
    /\ stored = {}
    /\ dropped = [x \in Ids |-> 0]
    /\ handed = [x \in Ids |-> 0]
    /\ it_arr = new.arr
    /\ it_idx = 0
    /\ it_len = 0
    /\ it_live = FALSE

IterUnchanged == UNCHANGED <<it_arr, it_idx, it_len, it_live>>

\* no parser call is under check
NotCalled == [tag |-> "NotCalled"]
ParseIdle == input = [fn |-> "none"] /\ output = NotCalled

\* the sysfs backend of a specification that checks something else
SysIdle ==
    /\ dir = <<>> /\ dir_iter = <<>> /\ yielded = <<>>
    /\ item = NotCalled
    /\ path = <<>> /\ fs = [state |-> "missing", content |-> <<>>]
    /\ ret = NotCalled

\* the buffer of a specification that checks something else
ProcIdle ==
    /\ pcidev = NotCalled /\ proc = <<>> /\ bus_iter = <<>>
    /\ self_bus = [tag |-> "None"]
    /\ proc_yielded = <<>> /\ proc_item = NotCalled

AutoIdle ==
    /\ roots = [sysfs |-> FALSE, procfs |-> FALSE]
    /\ attempts = <<>> /\ auto_iter = NotCalled

PwIdle ==
    /\ pw_buf = [cap |-> [m |-> 0, e |-> 0], len |-> 0]
    /\ pw_attempt = 0 /\ pw_err = "none" /\ pw_ret = NotCalled

AVIdle == AVInit /\ size_of_T = 1

\* ArrayVec::new() once no buffer and no iterator is left
New ==
    /\ ~live /\ ~it_live /\ ~ub
    /\ arr' = new.arr /\ len' = new.len /\ live' = TRUE
    /\ shadow' = <<>>
    /\ last' = NoOp
    /\ UNCHANGED <<size_of_T, ub, next_id, stored, dropped, handed>>
    /\ IterUnchanged

\* clear: *self = Self::new() drops the old buffer and its elements
Clear ==
    /\ live /\ ~ub
    /\ dropped' = Bump(dropped, drop_elems(arr, len))
    /\ arr' = new.arr /\ len' = new.len
    /\ shadow' = <<>>
    /\ last' = [NoOp EXCEPT !.op = "clear", !.pre_len = len]
    /\ UNCHANGED <<size_of_T, live, ub, next_id, stored, handed>>
    /\ IterUnchanged

TryPush ==
    /\ live /\ ~ub /\ next_id <= MaxId
    /\ LET value == next_id
           r == try_push(arr, len, value)
       IN  /\ arr' = r.arr /\ len' = r.len
           /\ last' = [NoOp EXCEPT !.op = "try_push", !.val = value,
                                   !.ret = r.ret, !.writes = r.writes,
                                   !.pre_len = len]
           /\ shadow' = IF Len(shadow) < CAP THEN Append(shadow, value)
                        ELSE shadow
           /\ stored' = IF r.ret.tag = "Ok" THEN stored \cup {value} ELSE stored
           /\ handed' = IF r.ret.tag = "Err" THEN Bump(handed, {r.ret.val})
                        ELSE handed
    /\ next_id' = next_id + 1
    /\ UNCHANGED <<size_of_T, live, ub, dropped>>
    /\ IterUnchanged

Push ==
    /\ live /\ ~ub /\ next_id <= MaxId
    /\ LET value == next_id
           r == push(arr, len, value)
       IN  /\ arr' = r.arr /\ len' = r.len
           /\ last' = [NoOp EXCEPT !.op = "push", !.val = value,
                                   !.ret = r.ret, !.writes = r.writes,
                                   !.pre_len = len]
           /\ shadow' = IF Len(shadow) < CAP THEN Append(shadow, value)
                        ELSE shadow
           /\ stored' = IF r.discarded = {} THEN stored \cup {value} ELSE stored
           /\ dropped' = Bump(dropped, r.discarded)
    /\ next_id' = next_id + 1
    /\ UNCHANGED <<size_of_T, live, ub, handed>>
    /\ IterUnchanged

Pop ==
    /\ live /\ ~ub
    /\ LET r == pop(arr, len)
       IN  /\ arr' = r.arr /\ len' = r.len
           /\ last' = [NoOp EXCEPT !.op = "pop", !.ret = r.ret,
                                   !.pre_len = len]
           /\ handed' = IF r.ret.tag = "Some" THEN Bump(handed, {r.ret.val})
                        ELSE handed
    /\ shadow' = IF shadow = <<>> THEN shadow
                 ELSE SubSeq(shadow, 1, Len(shadow) - 1)
    /\ UNCHANGED <<size_of_T, live, ub, next_id, stored, dropped>>
    /\ IterUnchanged

\* extend(iter) with an iterator of k fresh elements; the elements the loop
\* does not take stay with the caller's iterator
Extend ==
    /\ live /\ ~ub
    /\ \E k \in 0..MaxSlice :
        /\ next_id + k - 1 <= MaxId
        /\ LET items == Fresh(k)
               r == extend(arr, len, items)
               taken == k - Len(r.rest)
           IN  /\ arr' = r.arr /\ len' = r.len
               /\ last' = [NoOp EXCEPT !.op = "extend", !.src = items,
                                       !.writes = len..(r.len - 1),
                                       !.pre_len = len]
               /\ shadow' = shadow \o SubSeq(items, 1,
                                        Min(CAP - Len(shadow), k))
               /\ stored' = stored \cup {items[i] : i \in 1..taken}
               /\ next_id' = next_id + taken
    /\ UNCHANGED <<size_of_T, live, ub, dropped, handed>>
    /\ IterUnchanged

\* What the build can leave in `len` after a write past the end of arr: the
\* field order of a repr(Rust) struct is unspecified, so the words behind arr
\* may be `len` itself (overwritten with source bytes before `self.len += len`)
\* or other memory (len is then the intended l + n).
LenAfterOverflow(intended) == {intended} \cup (0..(CAP + 1))

CopyFromSlice ==
    /\ live /\ ~ub
    /\ \E k \in 0..MaxSlice :
        /\ next_id + k - 1 <= MaxId
        /\ LET slice == Fresh(k)
               r == copy_from_slice(arr, len, slice, size_of_T)
               oob == {j \in r.writes : j >= CAP}
           IN  /\ arr' = r.arr
               /\ IF oob = {}
                  THEN len' = r.len /\ ub' = FALSE
                  ELSE len' \in LenAfterOverflow(r.len) /\ ub' = TRUE
               /\ last' = [NoOp EXCEPT !.op = "copy_from_slice", !.src = slice,
                                       !.writes = r.writes, !.pre_len = len]
               /\ shadow' = shadow \o SubSeq(slice, 1,
                                        Min(CAP - Len(shadow), k))
               /\ stored' = stored \cup {slice[i] : i \in 1..r.copied}
               /\ next_id' = next_id + k
    /\ UNCHANGED <<size_of_T, live, dropped, handed>>
    /\ IterUnchanged

\* Write::write exists for ArrayVec<u8, CAP> only
Write ==
    /\ live /\ ~ub /\ size_of_T = 1
    /\ \E k \in 0..MaxSlice :
        /\ next_id + k - 1 <= MaxId
        /\ LET buf == Fresh(k)
               r == write(arr, len, buf)
           IN  /\ arr' = r.arr /\ len' = r.len
               /\ last' = [NoOp EXCEPT !.op = "write", !.src = buf,
                                       !.ret = r.ret, !.writes = r.writes,
                                       !.pre_len = len]
               /\ shadow' = shadow \o SubSeq(buf, 1,
                                        Min(CAP - Len(shadow), k))
               /\ stored' = stored \cup {buf[i] : i \in 1..r.ret.val}
               /\ next_id' = next_id + k
    /\ UNCHANGED <<size_of_T, live, ub, dropped, handed>>
    /\ IterUnchanged

\* Drop for ArrayVec
Drop ==
    /\ live /\ ~ub
    /\ dropped' = Bump(dropped, drop_elems(arr, len))
    /\ live' = FALSE
    /\ last' = [NoOp EXCEPT !.op = "drop", !.pre_len = len]
    /\ UNCHANGED <<size_of_T, arr, len, ub, next_id, shadow, stored, handed>>
    /\ IterUnchanged

\* into_iter: len is read, into_raw moves the array out and the emptied self
\* is dropped when into_raw returns
IntoIter ==
    /\ live /\ ~ub /\ ~it_live
    /\ LET l == len
           r == into_raw(arr, len)
       IN  /\ it_arr' = r.ret /\ it_idx' = 0 /\ it_len' = l
           /\ dropped' = Bump(dropped, drop_elems(arr, r.self_len))
    /\ it_live' = TRUE
    /\ live' = FALSE
    /\ last' = [NoOp EXCEPT !.op = "into_iter", !.pre_len = len]
    /\ UNCHANGED <<size_of_T, arr, len, ub, next_id, shadow, stored, handed>>

\* Iterator::next of ArrayVecIter
iter_next(a, idx, l) ==
    IF idx >= l
    THEN [idx |-> idx, ret |-> None]
    ELSE [idx |-> idx + 1, ret |-> Some(a[idx])]

\* Drop for ArrayVecIter: self.for_each(|_| ()) calls next until None and
\* drops every item it gets
RECURSIVE iter_drain(_, _, _)
iter_drain(a, idx, l) ==
    LET r == iter_next(a, idx, l)
    IN  IF r.ret.tag = "None"
        THEN [idx |-> r.idx, items |-> {}]
        ELSE LET rest == iter_drain(a, r.idx, l)
             IN  [idx |-> rest.idx, items |-> {r.ret.val} \cup rest.items]

IterNext ==
    /\ it_live
    /\ LET r == iter_next(it_arr, it_idx, it_len)
       IN  /\ it_idx' = r.idx
           /\ handed' = IF r.ret.tag = "Some" THEN Bump(handed, {r.ret.val})
                        ELSE handed
           /\ last' = [NoOp EXCEPT !.op = "next", !.ret = r.ret,
                                   !.pre_len = it_len - it_idx]
    /\ UNCHANGED <<size_of_T, arr, len, live, ub, next_id, shadow, stored,
                   dropped, it_arr, it_len, it_live>>

IterDrop ==
    /\ it_live
    /\ LET r == iter_drain(it_arr, it_idx, it_len)
       IN  /\ it_idx' = r.idx
           /\ dropped' = Bump(dropped, r.items)
    /\ it_live' = FALSE
    /\ last' = [NoOp EXCEPT !.op = "iter_drop", !.pre_len = it_len - it_idx]
    /\ UNCHANGED <<size_of_T, arr, len, live, ub, next_id, shadow, stored,
                   handed, it_arr, it_len>>

AVNext ==
    /\ Clear \/ TryPush \/ Push \/ Pop \/ Extend \/ CopyFromSlice \/ Write
    /\ UNCHANGED <<parseVars, sysVars, procVars, autoVars, pwVars>>

\* a fresh buffer, nothing else of the program in use
ArrayVecInit ==
    AVInit /\ ParseIdle /\ SysIdle /\ ProcIdle /\ AutoIdle /\ PwIdle

\* the buffer under every operation of its API but destruction
SpecArrayVec == ArrayVecInit /\ [][AVNext]_vars

DropNext ==
    /\ New \/ Clear \/ TryPush \/ Push \/ Pop \/ Drop \/ IntoIter
       \/ IterNext \/ IterDrop
    /\ UNCHANGED <<parseVars, sysVars, procVars, autoVars, pwVars>>

\* the buffer and its owning iterator from construction to destruction
SpecDrop == ArrayVecInit /\ [][DropNext]_vars

(***************************************************************************)
(* Claims about ArrayVec                                                   *)
(***************************************************************************)

\* C1: after any sequence of new, try_push, push, pop, extend,
\* copy_from_slice, write and clear, 0 <= len <= CAP and the elements visible
\* through as_slice are exactly the elements meant to be stored, in insertion
\* order.
C1_LenAndContents ==
    /\ len \in 0..CAP
    /\ as_slice(arr, len) = shadow

\* C2 as stated: a push (try_push or push) onto a full buffer fails, hands the
\* rejected value back to the caller and leaves length and elements unchanged;
\* a push onto a non-full buffer succeeds and adds exactly one to the length.
C2_RejectedValueReturned ==
    [][last'.op \in {"try_push", "push"} =>
        IF len = CAP
        THEN /\ last'.ret = Err(last'.val)
             /\ len' = len
             /\ as_slice(arr', len') = as_slice(arr, len)
        ELSE /\ last'.ret.tag # "Err"
             /\ len' = len + 1]_vars

\* C2 amended: try_push onto a full buffer returns Err(value); push onto a full
\* buffer returns nothing and drops the rejected value; both leave length and
\* elements unchanged. On a non-full buffer both succeed, store the value at
\* the end and add exactly one to the length.
C2_TryPushReturnsPushDrops ==
    [][last'.op \in {"try_push", "push"} =>
        IF len = CAP
        THEN /\ last'.op = "try_push" =>
                    /\ last'.ret = Err(last'.val)
                    /\ handed'[last'.val] = handed[last'.val] + 1
                    /\ dropped' = dropped
             /\ last'.op = "push" =>
                    /\ last'.ret = Unit
                    /\ dropped'[last'.val] = dropped[last'.val] + 1
                    /\ handed' = handed
             /\ len' = len
             /\ as_slice(arr', len') = as_slice(arr, len)
        ELSE /\ last'.ret = (IF last'.op = "push" THEN Unit ELSE Ok)
             /\ len' = len + 1
             /\ as_slice(arr', len') = Append(as_slice(arr, len), last'.val)
             /\ dropped' = dropped /\ handed' = handed]_vars

\* a fourth element was offered to try_push on a full buffer and came back
C2_Witness ==
    /\ last.op = "try_push"
    /\ last.pre_len = CAP
    /\ last.ret = Err(last.val)
    /\ len = CAP

\* C3: pop on a non-empty buffer returns the most recently pushed remaining
\* element, takes exactly one off the length and leaves the other elements
\* unchanged; on an empty buffer it returns None and changes nothing.
C3_PopIsLifo ==
    [][last'.op = "pop" =>
        IF len = 0
        THEN /\ last'.ret = None
             /\ len' = 0
             /\ arr' = arr
        ELSE /\ last'.ret = Some(shadow[Len(shadow)])
             /\ len' = len - 1
             /\ as_slice(arr', len') = SubSeq(shadow, 1, Len(shadow) - 1)
             /\ as_slice(arr', len') = SubSeq(as_slice(arr, len), 1, len - 1)
      ]_vars

\* a pop returned an element and left at least one behind
C3_Witness ==
    /\ last.op = "pop"
    /\ last.ret.tag = "Some"
    /\ last.pre_len >= 2
    /\ len = last.pre_len - 1

\* C4: copy_from_slice and write append exactly min(spare, source length)
\* elements, the leading elements of the source in order; the length grows by
\* that count, the stored elements stay, nothing outside the vacant region is
\* written, and write reports Ok(count).
C4_BulkCopyIn ==
    [][last'.op \in {"copy_from_slice", "write"} =>
        LET n == Min(CAP - len, Len(last'.src))
        IN  /\ len' = len + n
            /\ len' <= CAP
            /\ as_slice(arr', len') =
                   as_slice(arr, len) \o SubSeq(last'.src, 1, n)
            /\ last'.writes \subseteq vacant(len)
            /\ last'.op = "write" => last'.ret = OkN(n)]_vars

\* C5: every element ever stored is released (dropped by a container or
\* handed to the caller) exactly once: at any time it is either still owned by
\* the live buffer or the live iterator and not released, or owned by neither
\* and released exactly once.
Owned(x) ==
    (IF live /\ x \in {arr[i] : i \in occupied(len)} THEN 1 ELSE 0)
    + (IF it_live /\ x \in {it_arr[i] : i \in it_idx..(it_len - 1)}
       THEN 1 ELSE 0)

C5_ReleasedExactlyOnce ==
    \A x \in stored : dropped[x] + handed[x] + Owned(x) = 1

\* an iterator was dropped after handing out some but not all of its items
C5_Witness ==
    /\ last.op = "iter_drop"
    /\ ~live /\ ~it_live
    /\ \E x \in stored : handed[x] = 1 /\ dropped[x] = 0
    /\ \E y \in stored : dropped[y] = 1 /\ handed[y] = 0
    /\ last.pre_len >= 1 /\ last.pre_len < it_len

(***************************************************************************)
(* Hex field parsers (src/src/parse.rs)                                    *)
(***************************************************************************)
ASCII ==
    ("0" :> 48) @@ ("1" :> 49) @@ ("3" :> 51) @@ ("9" :> 57) @@ (":" :> 58)
    @@ ("." :> 46) @@ ("a" :> 97) @@ ("c" :> 99) @@ ("f" :> 102)
    @@ ("g" :> 103) @@ ("x" :> 120) @@ ("z" :> 122) @@ ("A" :> 65)
    @@ ("C" :> 67) @@ ("F" :> 70) @@ ("G" :> 71) @@ ("\n" :> 10)
    @@ ("d" :> 100) @@ ("e" :> 101) @@ ("v" :> 118) @@ ("i" :> 105)
    @@ ("s" :> 115)

\* the byte string of a sequence of one-character strings
Bytes(t) == [i \in DOMAIN t |-> ASCII[t[i]]]

\* sequences over S of length lo..hi
SeqsOf(S, lo, hi) == UNION {[1..k -> S] : k \in lo..hi}

\* the lookup table of unhex: built once, for every byte value
LUT ==
    [b \in 0..255 |->
        IF b \in 48..57 THEN (b - 48) % 256
        ELSE IF b \in 97..102 THEN (((b - 97) % 256) + 10) % 256
        ELSE 0]

unhex_accepts_uppercase(b) ==
    IF b \in 65..70 THEN b - 65 + 10 ELSE LUT[b]

unhex(b) == LUT[b]

\* the characters ascii::hex_uint takes: "0123456789abcdefABCDEF"
IsHexDigit(c) == c \in (48..57) \cup (97..102) \cup (65..70)

\* char::to_digit(16).unwrap_or(0)
to_digit16(c) ==
    IF c \in 48..57 THEN c - 48
    ELSE IF c \in 97..102 THEN c - 97 + 10
    ELSE IF c \in 65..70 THEN c - 65 + 10
    ELSE 0

PErr(ctx) == [ok |-> FALSE, val |-> 0, rest |-> <<>>, err |-> ctx]
POk(v, rest) == [ok |-> TRUE, val |-> v, rest |-> rest, err |-> "none"]

\* token::take(n).complete_err().context("Not enough bytes in hex field")
take(n, i) ==
    IF Len(i) < n
    THEN PErr("Not enough bytes in hex field")
    ELSE POk(SubSeq(i, 1, n), SubSeq(i, n + 1, Len(i)))

\* the length of the longest prefix of i made of hex digits
RECURSIVE invalid_offset(_)
invalid_offset(i) ==
    IF i = <<>> \/ ~IsHexDigit(Head(i)) THEN 0
    ELSE 1 + invalid_offset(Tail(i))

RECURSIVE hex_value(_, _)
hex_value(res, parsed) ==
    IF parsed = <<>> THEN res
    ELSE hex_value(res * 16 + to_digit16(Head(parsed)), Tail(parsed))

\* ascii::hex_uint for an output type of max_nibbles hex digits, with
\* .context("Invalid hex digits in hex field"): it takes the leading run of
\* hex digits (overflow when the run is longer than the type holds, failure
\* when it is empty) and leaves what follows the run unread
hex_uint(max_nibbles, i) ==
    LET off == invalid_offset(i)
    IN  IF Len(i) >= max_nibbles /\ max_nibbles < off
        THEN PErr("Invalid hex digits in hex field")
        ELSE IF off = 0
        THEN PErr("Invalid hex digits in hex field")
        ELSE POk(hex_value(0, SubSeq(i, 1, off)), SubSeq(i, off + 1, Len(i)))

\* FixedLengthHex(n).parse_next for an output type of max_nibbles hex digits:
\* take(n), and_then hex_uint on the n bytes taken. and_then does not ask the
\* inner parser to read all of them; on failure the input is left as it was.
FixedLengthHex(n, max_nibbles, i) ==
    LET t == take(n, i)
    IN  IF ~t.ok THEN [t EXCEPT !.rest = i]
        ELSE LET h == hex_uint(max_nibbles, t.val)
             IN  IF ~h.ok THEN [h EXCEPT !.rest = i]
                 ELSE POk(h.val, t.rest)

\* a literal character parser (':' or '.')
literal(c, i) ==
    IF i # <<>> /\ Head(i) = c THEN POk(c, Tail(i)) ELSE PErr("literal")

\* PciDevice::new(domain, bus, device, function)
PciDevice(domain, bus, device, function) ==
    [domain |-> domain, bus |-> bus, device |-> device, function |-> function]

DevErr == [ok |-> FALSE, dev |-> PciDevice(0, 0, 0, 0)]

\* parse_device: seq!(hex(4) ':' hex(2) ':' hex(2) '.' hex(1)).parse(stream);
\* domain is a u16 (4 nibbles), the others are u8 (2 nibbles); parse() fails
\* when input is left over
parse_device(stream) ==
    LET domain == FixedLengthHex(4, 4, stream)
    IN  IF ~domain.ok THEN DevErr ELSE
    LET c1 == literal(ASCII[":"], domain.rest)
    IN  IF ~c1.ok THEN DevErr ELSE
    LET bus == FixedLengthHex(2, 2, c1.rest)
    IN  IF ~bus.ok THEN DevErr ELSE
    LET c2 == literal(ASCII[":"], bus.rest)
    IN  IF ~c2.ok THEN DevErr ELSE
    LET device == FixedLengthHex(2, 2, c2.rest)
    IN  IF ~device.ok THEN DevErr ELSE
    LET dot == literal(ASCII["."], device.rest)
    IN  IF ~dot.ok THEN DevErr ELSE
    LET function == FixedLengthHex(1, 2, dot.rest)
    IN  IF ~function.ok THEN DevErr ELSE
    IF function.rest # <<>> THEN DevErr
    ELSE [ok |-> TRUE,
          dev |-> PciDevice(domain.val, bus.val, device.val, function.val)]

\* the (n, nibbles of the output type) pairs the repository parses with
HexFieldShapes == {<<1, 2>>, <<2, 2>>, <<4, 4>>}
\* characters of the inputs tried
HexAlphabet == {ASCII["0"], ASCII["a"], ASCII["F"], ASCII["g"], ASCII[":"]}
\* longest input tried beyond the 4 characters of the widest field
MaxExtra == 1

HexInit ==
    /\ AVIdle /\ SysIdle /\ ProcIdle /\ AutoIdle /\ PwIdle
    /\ \E sh \in HexFieldShapes, i \in SeqsOf(HexAlphabet, 0, 4 + MaxExtra) :
           input = [fn |-> "FixedLengthHex", n |-> sh[1], nibbles |-> sh[2],
                    i |-> i]
    /\ output = NotCalled

ParseNext ==
    /\ input.fn = "FixedLengthHex" /\ output = NotCalled
    /\ output' = FixedLengthHex(input.n, input.nibbles, input.i)
    /\ UNCHANGED <<input, avVars, sysVars, procVars, autoVars, pwVars>>

\* FixedLengthHex applied to one input
SpecHex == HexInit /\ [][ParseNext]_vars

UnhexInit ==
    /\ AVIdle /\ SysIdle /\ ProcIdle /\ AutoIdle /\ PwIdle
    /\ \E b \in 0..255 : input = [fn |-> "unhex", b |-> b]
    /\ output = NotCalled

Unhex ==
    /\ input.fn = "unhex" /\ output = NotCalled
    /\ output' = [tag |-> "u8", val |-> unhex(input.b)]
    /\ UNCHANGED <<input, avVars, sysVars, procVars, autoVars, pwVars>>

\* unhex applied to one byte
SpecUnhex == UnhexInit /\ [][Unhex]_vars

\* the value of a string of hex digits, most significant first
RECURSIVE HexNumber(_)
HexNumber(ds) ==
    IF ds = <<>> THEN 0
    ELSE 16 * HexNumber(SubSeq(ds, 1, Len(ds) - 1)) + to_digit16(ds[Len(ds)])

AllHex(ds) == \A k \in DOMAIN ds : IsHexDigit(ds[k])

\* C6: FixedLengthHex(n) consumes exactly n characters and returns their
\* hexadecimal value, leaving the rest untouched; with fewer than n characters
\* it fails with the length error, and with any non-hex character among the n
\* it fails with the other, the digit error.
C6_ExactlyNHexDigits ==
    output # NotCalled /\ input.fn = "FixedLengthHex" =>
        LET n == input.n
            field == SubSeq(input.i, 1, n)
        IN  IF Len(input.i) < n
            THEN ~output.ok /\ output.err = "Not enough bytes in hex field"
            ELSE IF AllHex(field)
            THEN /\ output.ok
                 /\ output.val = HexNumber(field)
                 /\ output.rest = SubSeq(input.i, n + 1, Len(input.i))
            ELSE ~output.ok /\ output.err = "Invalid hex digits in hex field"

\* C7: unhex is defined on all 256 bytes: '0'..'9' give 0..9, 'a'..'f' give
\* 10..15 and every other byte ('z', 'A'..'F', 'x', newline, ...) gives 0; the
\* result is always within 0..15.
C7_UnhexTable ==
    output # NotCalled /\ input.fn = "unhex" =>
        LET b == input.b
        IN  /\ output.val \in 0..15
            /\ b \in 48..57 => output.val = b - 48
            /\ b \in 97..102 => output.val = b - 97 + 10
            /\ b \notin (48..57) \cup (97..102) => output.val = 0
            /\ b \in {ASCII["z"], ASCII["x"], ASCII["\n"]} \cup (65..70)
                   => output.val = 0

\* unhex was applied to an uppercase hex digit and gave 0
C7_Witness ==
    /\ input.fn = "unhex" /\ input.b = ASCII["F"]
    /\ output # NotCalled /\ output.val = 0

(***************************************************************************)
(* The sysfs backend (src/src/pci/linux_sysfs.rs)                          *)
(***************************************************************************)
\* the parts an address text is put together from: well-formed fields and
\* fields that are short, or hold a character that is no hex digit
DomainTexts ==
    {Bytes(t) : t \in {<<"0", "0", "0", "0">>, <<"0", "0", "a", "1">>,
                       <<"0", "0", "F", "0">>, <<"0", "0", "0", "g">>,
                       <<"g", "0", "0", "0">>, <<"0", "0", "0">>}}
ByteTexts ==
    {Bytes(t) : t \in {<<"0", "0">>, <<"1", "f">>, <<"1", "g">>, <<"g", "1">>,
                       <<"0">>}}
FunctionTexts == {Bytes(t) : t \in {<<"3">>, <<"a">>, <<"g">>, <<>>}}
SeparatorTexts == {Bytes(<<":">>), Bytes(<<".">>)}
TrailingTexts == {<<>>, Bytes(<<"0">>)}

AddrInit ==
    /\ AVIdle /\ SysIdle /\ ProcIdle /\ AutoIdle /\ PwIdle
    /\ \E d \in DomainTexts, s1 \in SeparatorTexts, b \in ByteTexts,
          s2 \in SeparatorTexts, dv \in ByteTexts, s3 \in SeparatorTexts,
          f \in FunctionTexts, t \in TrailingTexts :
           input = [fn |-> "parse_device",
                    i |-> d \o s1 \o b \o s2 \o dv \o s3 \o f \o t]
    /\ output = NotCalled

ParseDevice ==
    /\ input.fn = "parse_device" /\ output = NotCalled
    /\ output' = parse_device(input.i)
    /\ UNCHANGED <<input, avVars, sysVars, procVars, autoVars, pwVars>>

\* parse_device applied to one name
SpecSysAddr == AddrInit /\ [][ParseDevice]_vars

\* DDDD:BB:DD.F, every D, B, F a hex digit, nothing before or after
WellFormedAddress(name) ==
    /\ Len(name) = 12
    /\ \A k \in {1, 2, 3, 4, 6, 7, 9, 10, 12} : IsHexDigit(name[k])
    /\ name[5] = ASCII[":"] /\ name[8] = ASCII[":"] /\ name[11] = ASCII["."]

AddressOf(name) ==
    PciDevice(HexNumber(SubSeq(name, 1, 4)), HexNumber(SubSeq(name, 6, 7)),
              HexNumber(SubSeq(name, 9, 10)), HexNumber(SubSeq(name, 12, 12)))

\* C8: the sysfs address parser accepts a name exactly when it is 4 hex
\* digits, ':', 2 hex digits, ':', 2 hex digits, '.', 1 hex digit and nothing
\* else, and then yields the values of the four fields; every other name is
\* rejected.
C8_AcceptsExactlyAddresses ==
    output # NotCalled /\ input.fn = "parse_device" =>
        /\ output.ok <=> WellFormedAddress(input.i)
        /\ output.ok => output.dev = AddressOf(input.i)

\* the names of the directory entries tried, as read_dir gives them
EntryName ==
    ("0000:00:1f.3" :> Bytes(<<"0", "0", "0", "0", ":", "0", "0", ":", "1",
                               "f", ".", "3">>))
    @@ ("0000:01:00.0" :> Bytes(<<"0", "0", "0", "0", ":", "0", "1", ":", "0",
                                  "0", ".", "0">>))
    @@ ("000g:00:1f.3" :> Bytes(<<"0", "0", "0", "g", ":", "0", "0", ":", "1",
                                  "f", ".", "3">>))
    @@ ("0000:00:1f" :> Bytes(<<"0", "0", "0", "0", ":", "0", "0", ":", "1",
                                "f">>))
    @@ ("z" :> Bytes(<<"z">>))

\* a directory entry: Ok(DirEntry) with a name, or Err(io::Error)
DirEntries ==
    {[io |-> "Ok", name |-> n] : n \in DOMAIN EntryName}
    \cup {[io |-> "Err", name |-> ""]}

\* longest directory listing tried
MaxEntries == 3

SysRoot == <<"sys", "bus", "pci", "devices">>

ItemNone == [tag |-> "None"]
ItemErrEndsTraversal(e) == [tag |-> "None"]
ItemErr(e) == [tag |-> "Err", err |-> e]
ItemOk(dev, provider) == [tag |-> "Ok", dev |-> dev, provider |-> provider]

\* SysBusBackend::next: the for loop over dir_iter.by_ref()
RECURSIVE sys_next(_)
sys_next(it) ==
    IF it = <<>> THEN [dir_iter |-> it, item |-> ItemNone]
    ELSE LET entry == Head(it)
         IN  IF entry.io = "Err"
             THEN [dir_iter |-> Tail(it), item |-> ItemErr("IOError")]
             ELSE LET dev == parse_device(EntryName[entry.name])
                  IN  IF ~dev.ok
                      THEN sys_next(Tail(it))
                      ELSE [dir_iter |-> Tail(it),
                            item |-> ItemOk(dev.dev,
                                [path |-> Append(SysRoot, entry.name)])]

EnumInit ==
    /\ AVIdle /\ ParseIdle /\ ProcIdle /\ AutoIdle /\ PwIdle
    /\ dir \in SeqsOf(DirEntries, 0, MaxEntries)
    /\ dir_iter = dir
    /\ yielded = <<>>
    /\ item = NotCalled
    /\ path = <<>> /\ fs = [state |-> "missing", content |-> <<>>]
    /\ ret = NotCalled

\* next() that answers None without reading the directory
SysNextGivesUp ==
    /\ item # ItemNone
    /\ item' = ItemNone
    /\ UNCHANGED <<dir, dir_iter, yielded, path, fs, ret, avVars, parseVars,
                   procVars, autoVars, pwVars>>

SysNext ==
    /\ item # ItemNone
    /\ LET r == sys_next(dir_iter)
       IN  /\ dir_iter' = r.dir_iter
           /\ item' = r.item
           /\ yielded' = IF r.item = ItemNone THEN yielded
                         ELSE Append(yielded, r.item)
    /\ UNCHANGED <<dir, path, fs, ret, avVars, parseVars, procVars, autoVars,
                   pwVars>>

\* one enumeration of a sysfs device directory
SpecSysEnum == EnumInit /\ [][SysNext]_vars

\* C9: the sysfs enumerator yields exactly one result per directory entry: an
\* Ok device for an entry whose name is a well-formed address and a failure
\* for an entry whose name is malformed (or that could not be read).
C9_OneResultPerEntry ==
    /\ Len(yielded) = Len(dir) - Len(dir_iter)
    /\ \A k \in 1..Len(yielded) :
          IF dir[k].io = "Ok" /\ WellFormedAddress(EntryName[dir[k].name])
          THEN /\ yielded[k].tag = "Ok"
               /\ yielded[k].dev = AddressOf(EntryName[dir[k].name])
          ELSE yielded[k].tag = "Err"

\* WrapPath::new: push the components of `push` onto the path and count them
wrap_new(p, push_) == [path |-> p \o push_, count |-> Len(push_)]

\* a Drop for WrapPath that pops nothing
wrap_drop_pops_nothing(p, count) == p

\* Drop for WrapPath: pop `count` components (PathBuf::pop stops at the root)
wrap_drop(p, count) == SubSeq(p, 1, Len(p) - Min(count, Len(p)))

\* the device directory whose attribute files `fs` describes
DevDir == Append(SysRoot, "0000:00:1f.3")

\* fs::File::open(p): there is a file at <DevDir>/<attribute> only
open(p, attribute) == p = Append(DevDir, attribute) /\ fs.state # "missing"

\* Write for ArrayVec<u8, cap>, the buffer seen through as_slice
write_u8(buf, cap, data) ==
    LET n == Min(cap - Len(buf), Len(data))
    IN  [buf |-> buf \o SubSeq(data, 1, n), ret |-> n]

\* std::io::copy(&mut file, &mut buf) into an empty ArrayVec<u8, cap>: the
\* file is read and written with write_all, which fails with WriteZero once
\* write returns Ok(0) with bytes left over
io_copy_file(file, cap) ==
    IF file.state = "unreadable" THEN [ok |-> FALSE, buf |-> <<>>]
    ELSE LET w == write_u8(<<>>, cap, file.content)
         IN  IF w.ret < Len(file.content)
             THEN [ok |-> FALSE, buf |-> w.buf]
             ELSE [ok |-> TRUE, buf |-> w.buf]

\* the copy from the attribute file of the device directory
io_copy(cap) == io_copy_file(fs, cap)

chunks_exact(s, k) ==
    [c \in 1..(Len(s) \div k) |-> SubSeq(s, (c - 1) * k + 1, c * k)]

skip(s, k) == SubSeq(s, k + 1, Len(s))

\* (unhex(bytes[0]) << 4) + unhex(bytes[1]) on u8
hex_pair(bytes) == (((unhex(bytes[1]) * 16) % 256) + unhex(bytes[2])) % 256

\* FromIterator for ArrayVec<u8, cap>: extend stops at the capacity
collect(s, cap) == SubSeq(s, 1, Min(cap, Len(s)))

QOk(v) == [tag |-> "Ok", val |-> v]
QErr(e) == [tag |-> "Err", val |-> e]

\* buf.chunks_exact(2).skip(1).map(hex_pair).collect::<ArrayVec<u8, 32>>()
decode_class(buf) ==
    LET pairs == skip(chunks_exact(buf, 2), 1)
    IN  collect([c \in DOMAIN pairs |-> hex_pair(pairs[c])], 32)

\* SysBusProvider::get_class
get_class(p) ==
    LET class == wrap_new(p, <<"class">>)
        restored == wrap_drop(class.path, class.count)
    IN  IF ~open(class.path, "class")
        THEN [path |-> restored, ret |-> QErr("IOError")]
        ELSE LET copied == io_copy(64)
             IN  IF ~copied.ok
                 THEN [path |-> restored, ret |-> QErr("IOError")]
                 ELSE [path |-> restored, ret |-> QOk(decode_class(copied.buf))]

\* hex digits of the attribute files tried, and how many at most
DigitAlphabet == {ASCII["0"], ASCII["3"], ASCII["c"], ASCII["C"]}
MaxDigits == 6

IsLowerHex(c) == c \in (48..57) \cup (97..102)

\* "0x", digits, and a newline or none; or a file too long for the buffer
AttrContents ==
    {Bytes(<<"0", "x">>) \o ds \o nl :
        ds \in SeqsOf(DigitAlphabet, 0, MaxDigits),
        nl \in {<<>>, Bytes(<<"\n">>)}}
    \cup {<<>>, Bytes(<<"0">>), [k \in 1..65 |-> ASCII["0"]]}

AttrInit ==
    /\ AVIdle /\ ParseIdle /\ ProcIdle /\ AutoIdle /\ PwIdle
    /\ dir = <<>> /\ dir_iter = <<>> /\ yielded = <<>> /\ item = NotCalled
    /\ path = DevDir
    /\ \/ fs \in {[state |-> "ok", content |-> c] : c \in AttrContents}
       \/ fs \in {[state |-> st, content |-> <<>>] :
                     st \in {"missing", "unreadable"}}
    /\ ret = NotCalled

GetClass ==
    /\ LET r == get_class(path)
       IN  /\ path' = r.path
           /\ ret' = r.ret @@ [q |-> "class"]
    /\ UNCHANGED <<dir, dir_iter, yielded, item, fs, avVars, parseVars,
                   procVars, autoVars, pwVars>>

\* slice::get(a..b): None when the range runs past the end
get(buf, a, b) ==
    IF b <= Len(buf) THEN [some |-> TRUE, val |-> SubSeq(buf, a + 1, b)]
    ELSE [some |-> FALSE, val |-> <<>>]

\* .fold(0, |acc, hex| (acc << 8) | hex as u16) on u16
RECURSIVE fold_u16(_, _)
fold_u16(acc, hexes) ==
    IF hexes = <<>> THEN acc
    ELSE fold_u16(((acc * 256) % 65536) + Head(hexes), Tail(hexes))

\* bytes.chunks_exact(2).map(hex_pair).fold(..)
decode_u16(bytes) ==
    LET pairs == chunks_exact(bytes, 2)
    IN  fold_u16(0, [c \in DOMAIN pairs |-> hex_pair(pairs[c])])

\* bytes.chunks_exact(2).skip(1).map(hex_pair).fold(..)
decode_u16_skip(bytes) ==
    LET pairs == skip(chunks_exact(bytes, 2), 1)
    IN  fold_u16(0, [c \in DOMAIN pairs |-> hex_pair(pairs[c])])

\* the body shared by get_vendor and get_susbystem_vid: the file is copied
\* into an ArrayVec<u8, 32> and the characters 2..6 are decoded
get_u16(p, attribute) ==
    LET w == wrap_new(p, <<attribute>>)
        restored == wrap_drop(w.path, w.count)
    IN  IF ~open(w.path, attribute)
        THEN [path |-> restored, ret |-> QErr("IOError")]
        ELSE LET copied == io_copy(32)
                 bytes == get(copied.buf, 2, 6)
             IN  IF ~copied.ok
                 THEN [path |-> restored, ret |-> QErr("IOError")]
                 ELSE IF ~bytes.some
                 THEN [path |-> restored, ret |-> QErr("InvalidDevice")]
                 ELSE [path |-> restored, ret |-> QOk(decode_u16(bytes.val))]

\* SysBusProvider::get_vendor
get_vendor(p) == get_u16(p, "vendor")

\* SysBusProvider::get_susbystem_vid
get_susbystem_vid(p) == get_u16(p, "subsystem_vendor")

\* file.read(&mut buf) into buf = [0; 32]: the leading bytes of the file, the
\* rest of the array stays 0
read_array(cap) ==
    IF fs.state = "unreadable" THEN [ok |-> FALSE, buf |-> [k \in 1..cap |-> 0]]
    ELSE [ok |-> TRUE,
          buf |-> [k \in 1..cap |->
                     IF k <= Len(fs.content) THEN fs.content[k] ELSE 0]]

\* SysBusProvider::get_device
get_device(p) ==
    LET w == wrap_new(p, <<"device">>)
        restored == wrap_drop(w.path, w.count)
    IN  IF ~open(w.path, "device")
        THEN [path |-> restored, ret |-> QErr("IOError")]
        ELSE LET r == read_array(32)
                 bytes == get(r.buf, 2, 6)
             IN  IF ~r.ok
                 THEN [path |-> restored, ret |-> QErr("IOError")]
                 ELSE IF ~bytes.some
                 THEN [path |-> restored, ret |-> QErr("InvalidDevice")]
                 ELSE [path |-> restored, ret |-> QOk(decode_u16(bytes.val))]

\* SysBusProvider::get_susbystem_did
get_susbystem_did(p) ==
    LET w == wrap_new(p, <<"subsystem_device">>)
        restored == wrap_drop(w.path, w.count)
    IN  IF ~open(w.path, "subsystem_device")
        THEN [path |-> restored, ret |-> QErr("IOError")]
        ELSE LET copied == io_copy(32)
                 bytes == get(copied.buf, 2, 6)
             IN  IF ~copied.ok
                 THEN [path |-> restored, ret |-> QErr("IOError")]
                 ELSE IF ~bytes.some
                 THEN [path |-> restored, ret |-> QErr("InvalidDevice")]
                 ELSE [path |-> restored,
                       ret |-> QOk(decode_u16_skip(bytes.val))]

\* SysBusProvider::get_revision
get_revision(p) ==
    LET w == wrap_new(p, <<"revision">>)
        restored == wrap_drop(w.path, w.count)
    IN  IF ~open(w.path, "revision")
        THEN [path |-> restored, ret |-> QErr("IOError")]
        ELSE LET copied == io_copy(32)
                 bytes == get(copied.buf, 2, 4)
             IN  IF ~copied.ok
                 THEN [path |-> restored, ret |-> QErr("IOError")]
                 ELSE IF ~bytes.some
                 THEN [path |-> restored, ret |-> QErr("InvalidDevice")]
                 ELSE [path |-> restored, ret |-> QOk(hex_pair(bytes.val))]

GetVendor ==
    /\ LET r == get_vendor(path)
       IN  /\ path' = r.path
           /\ ret' = r.ret @@ [q |-> "vendor"]
    /\ UNCHANGED <<dir, dir_iter, yielded, item, fs, avVars, parseVars,
                   procVars, autoVars, pwVars>>

GetDevice ==
    /\ LET r == get_device(path)
       IN  /\ path' = r.path
           /\ ret' = r.ret @@ [q |-> "device"]
    /\ UNCHANGED <<dir, dir_iter, yielded, item, fs, avVars, parseVars,
                   procVars, autoVars, pwVars>>

GetSubsystemVid ==
    /\ LET r == get_susbystem_vid(path)
       IN  /\ path' = r.path
           /\ ret' = r.ret @@ [q |-> "subsystem_vendor"]
    /\ UNCHANGED <<dir, dir_iter, yielded, item, fs, avVars, parseVars,
                   procVars, autoVars, pwVars>>

GetSubsystemDid ==
    /\ LET r == get_susbystem_did(path)
       IN  /\ path' = r.path
           /\ ret' = r.ret @@ [q |-> "subsystem_device"]
    /\ UNCHANGED <<dir, dir_iter, yielded, item, fs, avVars, parseVars,
                   procVars, autoVars, pwVars>>

GetRevision ==
    /\ LET r == get_revision(path)
       IN  /\ path' = r.path
           /\ ret' = r.ret @@ [q |-> "revision"]
    /\ UNCHANGED <<dir, dir_iter, yielded, item, fs, avVars, parseVars,
                   procVars, autoVars, pwVars>>

SysAttrNext ==
    \/ GetClass
    \/ GetVendor
    \/ GetDevice
    \/ GetSubsystemVid
    \/ GetSubsystemDid
    \/ GetRevision

\* attribute queries on one sysfs device
SpecSysAttr == AttrInit /\ [][SysAttrNext]_vars

\* the digits of a file "0x" digits [newline]
DigitsOf(content) ==
    LET body == SubSeq(content, 3, Len(content))
    IN  IF body # <<>> /\ body[Len(body)] = ASCII["\n"]
        THEN SubSeq(body, 1, Len(body) - 1)
        ELSE body

IsHexFile(content) ==
    /\ Len(content) >= 2
    /\ SubSeq(content, 1, 2) = Bytes(<<"0", "x">>)
    /\ \A k \in DOMAIN DigitsOf(content) : IsLowerHex(DigitsOf(content)[k])

PairValue(ds, k) == HexNumber(SubSeq(ds, 2 * k - 1, 2 * k))

\* C10: on a class file holding "0x" and hex digits (an even number of them,
\* four or more, as in "0x030000\n") the class query returns exactly two
\* bytes, [class, subclass], decoded from the first two digit pairs after the
\* "0x".
C10_ExactlyTwoBytes ==
    /\ ret # NotCalled /\ ret.q = "class" /\ fs.state = "ok"
    /\ IsHexFile(fs.content) /\ Len(DigitsOf(fs.content)) >= 4
    /\ Len(DigitsOf(fs.content)) % 2 = 0
    => ret = [tag |-> "Ok", q |-> "class",
              val |-> <<PairValue(DigitsOf(fs.content), 1),
                        PairValue(DigitsOf(fs.content), 2)>>]

\* the attributes decoded to 16 bits
SixteenBit == {"vendor", "device", "subsystem_vendor", "subsystem_device"}

\* C11: a vendor, device, subsystem_vendor or subsystem_device file holding
\* "0x" and four lowercase hex digits h1h2h3h4 yields 0xh1h2h3h4, the same for
\* all four; a revision file holding "0x" and two hex digits yields that
\* 8-bit value.
C11_AttributesDecode ==
    /\ ret # NotCalled /\ fs.state = "ok" /\ IsHexFile(fs.content)
    => /\ ret.q \in SixteenBit /\ Len(DigitsOf(fs.content)) = 4
          => ret.tag = "Ok" /\ ret.val = HexNumber(DigitsOf(fs.content))
       /\ ret.q = "revision" /\ Len(DigitsOf(fs.content)) = 2
          => ret.tag = "Ok" /\ ret.val = HexNumber(DigitsOf(fs.content))

\* how many characters a query needs: "0x" and the digits of its field (for
\* class, at least something)
Needs ==
    [q \in SixteenBit |-> 6] @@ ("revision" :> 4) @@ ("class" :> 1)

\* C12: every sysfs attribute query answers IOError when its file cannot be
\* opened or read, and InvalidDevice, never an Ok value, when the file holds
\* fewer characters than the field needs (an empty file included).
C12_ShortFileIsInvalidDevice ==
    ret # NotCalled =>
        /\ fs.state \in {"missing", "unreadable"}
           => ret.tag = "Err" /\ ret.val = "IOError"
        /\ fs.state = "ok" /\ Len(fs.content) < Needs[ret.q]
           => ret.tag = "Err" /\ ret.val = "InvalidDevice"

\* from_devfile without the check of the 16-byte minimum
from_devfile_no_minimum(file) ==
    IF file.state = "missing" THEN QErr("IOError")
    ELSE LET copied == io_copy_file(file, 72)
         IN  IF ~copied.ok THEN QErr("IOError")
             ELSE QOk([variant |-> "ProcFS", buf |-> copied.buf])

(***************************************************************************)
(* The procfs backend (src/src/pci/linux_procfs.rs)                        *)
(***************************************************************************)
\* ProcBusProvider::from_devfile
from_devfile(file) ==
    IF file.state = "missing" THEN QErr("IOError")
    ELSE LET copied == io_copy_file(file, 72)
         IN  IF ~copied.ok THEN QErr("IOError")
             ELSE IF Len(copied.buf) < 16 THEN QErr("InvalidDevice")
             ELSE QOk([variant |-> "ProcFS", buf |-> copied.buf])

\* a PciDevice<P>: the address and the provider
Handle(dev, provider) ==
    [domain |-> dev.domain, bus |-> dev.bus, device |-> dev.device,
     function |-> dev.function, provider |-> provider]

\* buf[k] of the source (indices from 0); indexing past the end panics
InBuf(buf, k) == k < Len(buf)
At(buf, k) == buf[k + 1]

QPanic == [tag |-> "Panic", val |-> "index out of bounds"]

\* u16::from_le_bytes
from_le_bytes(bytes) == bytes[1] + 256 * bytes[2]

\* get_header_type
get_header_type(buf) == At(buf, 14)

proc_get_class_swapped(buf) ==
    IF ~InBuf(buf, 11) THEN QPanic
    ELSE QOk(<<At(buf, 10), At(buf, 11)>>)

\* ProcBusProvider::get_class
proc_get_class(buf) ==
    IF ~InBuf(buf, 11) THEN QPanic
    ELSE QOk(<<At(buf, 11), At(buf, 10)>>)

\* ProcBusProvider::get_vendor
proc_get_vendor(buf) ==
    IF ~InBuf(buf, 1) THEN QPanic
    ELSE QOk(from_le_bytes(SubSeq(buf, 1, 2)))

\* ProcBusProvider::get_device
proc_get_device(buf) ==
    IF ~InBuf(buf, 3) THEN QPanic
    ELSE QOk(from_le_bytes(SubSeq(buf, 3, 4)))

\* ProcBusProvider::get_revision
proc_get_revision(buf) ==
    IF ~InBuf(buf, 8) THEN QPanic ELSE QOk(At(buf, 8))

\* match get_header_type(dev) { 0x0 => get(a0..), 0x2 => get(a2..), _ => .. }
subsystem_field(buf, a0, a2) ==
    IF ~InBuf(buf, 14) THEN QPanic
    ELSE IF get_header_type(buf) = 0
    THEN LET b == get(buf, a0, a0 + 2)
         IN  IF b.some THEN QOk(from_le_bytes(b.val))
             ELSE QErr("InvalidDevice")
    ELSE IF get_header_type(buf) = 2
    THEN LET b == get(buf, a2, a2 + 2)
         IN  IF b.some THEN QOk(from_le_bytes(b.val))
             ELSE QErr("InvalidDevice")
    ELSE QErr("NotAvailable")

proc_get_susbystem_vid_as_did(buf) == subsystem_field(buf, 49, 64)

\* ProcBusProvider::get_susbystem_vid
proc_get_susbystem_vid(buf) == subsystem_field(buf, 47, 66)

\* ProcBusProvider::get_susbystem_did
proc_get_susbystem_did(buf) == subsystem_field(buf, 49, 64)

\* sizes of the device files tried: around the 16-byte minimum, the offsets
\* of the subsystem fields and the 72-byte buffer, and a whole 256-byte
\* configuration space
ConfigLens == {0, 15, 16, 48, 49, 50, 51, 64, 65, 66, 67, 68, 72, 73, 256}
\* values of byte 14 tried
HeaderTypes == {0, 1, 2, 128, 130}
\* two fillings of the other bytes, every offset with a value of its own
Fillings == {1, 201}

ConfigImage(n, h, seed) ==
    [k \in 1..n |-> IF k = 15 THEN h ELSE ((k - 1) * 7 + seed) % 256]

ConfigImages ==
    {ConfigImage(n, h, seed) :
        n \in ConfigLens, h \in HeaderTypes, seed \in Fillings}

ProcDevInit ==
    /\ AVIdle /\ ParseIdle /\ AutoIdle /\ PwIdle
    /\ dir = <<>> /\ dir_iter = <<>> /\ yielded = <<>> /\ item = NotCalled
    /\ path = <<>>
    /\ \/ fs \in {[state |-> "ok", content |-> c] : c \in ConfigImages}
       \/ fs \in {[state |-> st, content |-> <<>>] :
                     st \in {"missing", "unreadable"}}
    /\ ret = NotCalled
    /\ pcidev = NotCalled
    /\ proc = <<>> /\ bus_iter = <<>> /\ self_bus = [tag |-> "None"]
    /\ proc_yielded = <<>> /\ proc_item = NotCalled

\* the device file 00/1f.3 is opened
FromDevfile ==
    /\ pcidev = NotCalled /\ ret = NotCalled
    /\ LET r == from_devfile(fs)
       IN  /\ ret' = r @@ [q |-> "from_devfile"]
           /\ pcidev' = IF r.tag = "Ok"
                        THEN Handle(PciDevice(0, 0, 31, 3), r.val)
                        ELSE pcidev
    /\ UNCHANGED <<proc, bus_iter, self_bus, proc_yielded, proc_item, dir,
                   dir_iter, yielded, item, path, fs, avVars, parseVars,
                   autoVars, pwVars>>

ProcGetClass ==
    /\ pcidev # NotCalled
    /\ ret' = proc_get_class(pcidev.provider.buf) @@ [q |-> "class"]
    /\ UNCHANGED <<procVars, dir, dir_iter, yielded, item, path, fs, avVars,
                   parseVars, autoVars, pwVars>>

ProcGetVendor ==
    /\ pcidev # NotCalled
    /\ ret' = proc_get_vendor(pcidev.provider.buf) @@ [q |-> "vendor"]
    /\ UNCHANGED <<procVars, dir, dir_iter, yielded, item, path, fs, avVars,
                   parseVars, autoVars, pwVars>>

ProcGetDevice ==
    /\ pcidev # NotCalled
    /\ ret' = proc_get_device(pcidev.provider.buf) @@ [q |-> "device"]
    /\ UNCHANGED <<procVars, dir, dir_iter, yielded, item, path, fs, avVars,
                   parseVars, autoVars, pwVars>>

ProcGetSubsystemVid ==
    /\ pcidev # NotCalled
    /\ ret' = proc_get_susbystem_vid(pcidev.provider.buf)
                  @@ [q |-> "subsystem_vendor"]
    /\ UNCHANGED <<procVars, dir, dir_iter, yielded, item, path, fs, avVars,
                   parseVars, autoVars, pwVars>>

ProcGetSubsystemDid ==
    /\ pcidev # NotCalled
    /\ ret' = proc_get_susbystem_did(pcidev.provider.buf)
                  @@ [q |-> "subsystem_device"]
    /\ UNCHANGED <<procVars, dir, dir_iter, yielded, item, path, fs, avVars,
                   parseVars, autoVars, pwVars>>

ProcGetRevision ==
    /\ pcidev # NotCalled
    /\ ret' = proc_get_revision(pcidev.provider.buf) @@ [q |-> "revision"]
    /\ UNCHANGED <<procVars, dir, dir_iter, yielded, item, path, fs, avVars,
                   parseVars, autoVars, pwVars>>

ProcDevNext ==
    \/ FromDevfile
    \/ ProcGetClass
    \/ ProcGetVendor
    \/ ProcGetDevice
    \/ ProcGetSubsystemVid
    \/ ProcGetSubsystemDid
    \/ ProcGetRevision

\* one procfs device file: opened, then queried
SpecProcDev == ProcDevInit /\ [][ProcDevNext]_vars

\* C13: from_devfile on a readable file answers InvalidDevice when the file
\* holds fewer than 16 bytes and otherwise a provider holding the leading
\* bytes of the file in order, at most 72 of them: a longer file is truncated
\* and still gives a provider.
C13_FromDevfileTruncates ==
    ret # NotCalled /\ ret.q = "from_devfile" /\ fs.state = "ok" =>
        IF Len(fs.content) < 16
        THEN ret.tag = "Err" /\ ret.val = "InvalidDevice"
        ELSE /\ ret.tag = "Ok"
             /\ ret.val.buf = SubSeq(fs.content, 1, Min(72, Len(fs.content)))

\* the configuration bytes of the handle
ConfigOf(dev) == dev.provider.buf

\* C14: for a procfs provider holding the bytes b, vendor is b[0] + 256*b[1],
\* device is b[2] + 256*b[3], revision is b[8] and class is exactly the two
\* bytes [b[11], b[10]]; the four queries always succeed.
C14_ProcFixedOffsets ==
    pcidev # NotCalled /\ ret.q \in {"vendor", "device", "revision", "class"}
    => LET b == ConfigOf(pcidev)
       IN  /\ ret.tag = "Ok"
           /\ ret.q = "vendor" => ret.val = b[1] + 256 * b[2]
           /\ ret.q = "device" => ret.val = b[3] + 256 * b[4]
           /\ ret.q = "revision" => ret.val = b[9]
           /\ ret.q = "class" => ret.val = <<b[12], b[11]>>

\* the class query answered [class, subclass] = [b[11], b[10]] = [78, 71]
C14_Witness ==
    /\ pcidev # NotCalled
    /\ Len(ConfigOf(pcidev)) = 64 /\ ConfigOf(pcidev)[1] = 1
    /\ ret.q = "class" /\ ret.tag = "Ok" /\ ret.val = <<78, 71>>

\* the little-endian 16-bit value at the bytes a, a+1 of b (indices from 0)
Le16(b, a) == b[a + 1] + 256 * b[a + 2]

Discriminant(h) == h % 128

\* C16: the header type that picks the subsystem layout is byte 14 masked to
\* its discriminant: a device gets the results of the device that differs
\* from it only in the other bits of byte 14.
C16_HeaderTypeMasked ==
    pcidev # NotCalled /\ ret.q \in {"subsystem_vendor", "subsystem_device"}
    => LET b == ConfigOf(pcidev)
           masked == [b EXCEPT ![15] = Discriminant(b[15])]
           same == IF ret.q = "subsystem_vendor"
                   THEN proc_get_susbystem_vid(masked)
                   ELSE proc_get_susbystem_did(masked)
       IN  ret.tag = same.tag /\ ret.val = same.val

\* parse_dev_file: seq!(FixedLengthHex(2) '.' FixedLengthHex(1)).parse(..)
parse_dev_file(dev_filename) ==
    LET device == FixedLengthHex(2, 2, dev_filename)
    IN  IF ~device.ok THEN DevErr ELSE
    LET dot == literal(ASCII["."], device.rest)
    IN  IF ~dot.ok THEN DevErr ELSE
    LET function == FixedLengthHex(1, 2, dot.rest)
    IN  IF ~function.ok THEN DevErr ELSE
    IF function.rest # <<>> THEN DevErr
    ELSE [ok |-> TRUE, dev |-> PciDevice(0, 0, device.val, function.val)]

\* FixedLengthHex(2).parse(bus_dir): parse() fails when input is left over
parse_bus(bus_dir) ==
    LET b == FixedLengthHex(2, 2, bus_dir)
    IN  IF b.ok /\ b.rest = <<>> THEN b ELSE PErr("parse")

\* the names of the entries of /proc/bus/pci and of its bus directories
ProcName ==
    ("00" :> Bytes(<<"0", "0">>))
    @@ ("1f" :> Bytes(<<"1", "f">>))
    @@ ("1g" :> Bytes(<<"1", "g">>))
    @@ ("z" :> Bytes(<<"z">>))
    @@ ("devices" :> Bytes(<<"d", "e", "v", "i", "c", "e", "s">>))
    @@ ("1f.3" :> Bytes(<<"1", "f", ".", "3">>))
    @@ ("00.0" :> Bytes(<<"0", "0", ".", "0">>))
    @@ ("0g.1" :> Bytes(<<"0", "g", ".", "1">>))

\* a device file as the non-root user reads it: 64 bytes, header type 0
DevFile == [state |-> "ok", content |-> ConfigImage(64, 0, 1)]
\* a device file cut short
ShortFile == [state |-> "ok", content |-> ConfigImage(15, 0, 1)]

\* the items a bus directory's ReadDir produces: Err(io::Error), or an entry
\* with a name and the file behind it
DevEntries ==
    {[io |-> "Err", name |-> "", file |-> DevFile],
     [io |-> "Ok", name |-> "1f.3", file |-> DevFile],
     [io |-> "Ok", name |-> "00.0", file |-> ShortFile],
     [io |-> "Ok", name |-> "0g.1", file |-> DevFile],
     [io |-> "Ok", name |-> "1f", file |-> DevFile]}

\* most device files in a bus directory, most entries in /proc/bus/pci
MaxDevs == 2
MaxBuses == 2

\* the items the first-level ReadDir produces: Err(io::Error), or an entry
\* with a name, whether read_dir on it succeeds, and what that would produce
BusEntries ==
    {[io |-> "Err", name |-> "", readable |-> FALSE, devs |-> <<>>],
     [io |-> "Ok", name |-> "1f", readable |-> FALSE, devs |-> <<>>],
     [io |-> "Ok", name |-> "devices", readable |-> FALSE, devs |-> <<>>]}
    \cup {[io |-> "Ok", name |-> "00", readable |-> TRUE, devs |-> ds] :
             ds \in SeqsOf(DevEntries, 0, MaxDevs)}
    \cup {[io |-> "Ok", name |-> n, readable |-> TRUE, devs |-> ds] :
             n \in {"z", "1g"},
             ds \in SeqsOf({[io |-> "Ok", name |-> "1f.3",
                             file |-> DevFile]}, 0, 1)}

BusNone == [tag |-> "None"]
BusSome(devices, b) == [tag |-> "Some", devices |-> devices, bus |-> b]

\* ProcBusBackend::next: the loop; `it` is bus_iter and `cur` is bus
RECURSIVE proc_next(_, _)
proc_next(it, cur) ==
    IF cur.tag = "None"
    THEN IF it = <<>>
         THEN [bus_iter |-> it, bus |-> cur, item |-> ItemNone]
         ELSE LET bus_dir == Head(it)
              IN  IF bus_dir.io = "Err"
                  THEN [bus_iter |-> Tail(it), bus |-> cur,
                        item |-> ItemErr("IOError")]
                  ELSE IF ProcName[bus_dir.name] = ProcName["devices"]
                  THEN proc_next(Tail(it), cur)
                  ELSE IF ~bus_dir.readable
                  THEN [bus_iter |-> Tail(it), bus |-> cur,
                        item |-> ItemErr("IOError")]
                  ELSE LET b == parse_bus(ProcName[bus_dir.name])
                       IN  IF ~b.ok
                           THEN [bus_iter |-> Tail(it), bus |-> cur,
                                 item |-> ItemErr("InvalidDevice")]
                           ELSE proc_next(Tail(it),
                                          BusSome(bus_dir.devs, b.val))
    ELSE IF cur.devices = <<>>
    THEN proc_next(it, BusNone)
    ELSE LET entry == Head(cur.devices)
             left == BusSome(Tail(cur.devices), cur.bus)
         IN  IF entry.io = "Err"
             THEN [bus_iter |-> it, bus |-> left, item |-> ItemErr("IOError")]
             ELSE LET parsed == parse_dev_file(ProcName[entry.name])
                      dev == [parsed.dev EXCEPT !.bus = cur.bus]
                      data == from_devfile(entry.file)
                  IN  IF ~parsed.ok
                      THEN [bus_iter |-> it, bus |-> left,
                            item |-> ItemErr("InvalidDevice")]
                      ELSE IF data.tag = "Err"
                      THEN [bus_iter |-> it, bus |-> left,
                            item |-> ItemErr(data.val)]
                      ELSE [bus_iter |-> it, bus |-> left,
                            item |-> ItemOk(dev, data.val)]

\* ProcBusBackend::try_init on a readable /proc/bus/pci
ProcEnumInit ==
    /\ AVIdle /\ ParseIdle /\ SysIdle /\ AutoIdle /\ PwIdle
    /\ pcidev = NotCalled
    /\ proc \in SeqsOf(BusEntries, 0, MaxBuses)
    /\ bus_iter = proc
    /\ self_bus = BusNone
    /\ proc_yielded = <<>> /\ proc_item = NotCalled

ProcNext ==
    /\ proc_item # ItemNone
    /\ LET r == proc_next(bus_iter, self_bus)
       IN  /\ bus_iter' = r.bus_iter
           /\ self_bus' = r.bus
           /\ proc_item' = r.item
           /\ proc_yielded' = IF r.item = ItemNone THEN proc_yielded
                              ELSE Append(proc_yielded, r.item)
    /\ UNCHANGED <<pcidev, proc, avVars, parseVars, sysVars, autoVars, pwVars>>

\* one enumeration of a procfs tree
SpecProcEnum == ProcEnumInit /\ [][ProcNext]_vars

\* the devices of the Ok items of a sequence of items, in order
RECURSIVE SelectOk(_)
SelectOk(items) ==
    IF items = <<>> THEN <<>>
    ELSE IF Head(items).tag = "Ok"
    THEN <<Head(items).dev>> \o SelectOk(Tail(items))
    ELSE SelectOk(Tail(items))

\* a bus directory name of exactly two hex digits
WellFormedBus(name) == Len(name) = 2 /\ AllHex(name)

\* a device file name DD.F
WellFormedDevFile(name) ==
    /\ Len(name) = 4
    /\ IsHexDigit(name[1]) /\ IsHexDigit(name[2]) /\ IsHexDigit(name[4])
    /\ name[3] = ASCII["."]

\* the addresses of the device files of one bus directory that can become
\* devices: readable entries named DD.F whose file gives a provider
RECURSIVE DevicesOf(_, _)
DevicesOf(b, devs) ==
    IF devs = <<>> THEN <<>>
    ELSE LET d == Head(devs)
             n == ProcName[d.name]
         IN  (IF /\ d.io = "Ok" /\ WellFormedDevFile(n)
                 /\ from_devfile(d.file).tag = "Ok"
              THEN <<PciDevice(0, b, HexNumber(SubSeq(n, 1, 2)),
                               HexNumber(SubSeq(n, 4, 4)))>>
              ELSE <<>>) \o DevicesOf(b, Tail(devs))

\* the devices of a tree, bus directory by bus directory: only directories
\* named by two hex digits have any, `devices` has none
RECURSIVE DevicesIn(_)
DevicesIn(tree) ==
    IF tree = <<>> THEN <<>>
    ELSE LET e == Head(tree)
             n == ProcName[e.name]
         IN  (IF e.io = "Ok" /\ e.readable /\ WellFormedBus(n)
              THEN DevicesOf(HexNumber(n), e.devs)
              ELSE <<>>) \o DevicesIn(Tail(tree))

\* the part of the tree next() has read so far
TreeRead ==
    LET done == Len(proc) - Len(bus_iter)
    IN  IF self_bus.tag = "None" THEN SubSeq(proc, 1, done)
        ELSE SubSeq(proc, 1, done - 1)
             \o <<[proc[done] EXCEPT
                     !.devs = SubSeq(@, 1, Len(@) - Len(self_bus.devices))]>>

\* C17: the procfs enumerator walks the bus directories and then their device
\* files: `devices` gives no item; the Ok devices yielded are, in order, the
\* DD.F files of the directories named by two hex digits, each with the bus of
\* the directory that holds it and the device and function of its file name.
C17_DevicesOfTheirBus ==
    SelectOk(proc_yielded) = DevicesIn(TreeRead)

\* either backend, initialised on its directory
EnumerationInit == EnumInit \/ ProcEnumInit

EnumerationNext == SysNext \/ ProcNext

\* one enumeration by the sysfs backend or by the procfs backend
SpecEnum == EnumerationInit /\ [][EnumerationNext]_vars

\* the addresses of the well-formed entries of a sysfs directory, in order
RECURSIVE SysDevicesIn(_)
SysDevicesIn(entries) ==
    IF entries = <<>> THEN <<>>
    ELSE LET e == Head(entries)
         IN  (IF e.io = "Ok" /\ WellFormedAddress(EntryName[e.name])
              THEN <<AddressOf(EntryName[e.name])>>
              ELSE <<>>) \o SysDevicesIn(Tail(entries))

\* s can be had from t by leaving elements out
RECURSIVE IsSubseq(_, _)
IsSubseq(s, t) ==
    IF s = <<>> THEN TRUE
    ELSE IF t = <<>> THEN FALSE
    ELSE IF Head(s) = Head(t) THEN IsSubseq(Tail(s), Tail(t))
    ELSE IsSubseq(s, Tail(t))

\* C18: in both backends an Err item does not end the traversal: when next()
\* at last answers None every entry has been visited, and every well-formed
\* device of the directory tree has been yielded, those after a failing entry
\* included.
C18_ErrorsDoNotEndTraversal ==
    /\ item = ItemNone
       => /\ dir_iter = <<>>
          /\ IsSubseq(SysDevicesIn(dir), SelectOk(yielded))
    /\ proc_item = ItemNone
       => /\ bus_iter = <<>>
          /\ IsSubseq(DevicesIn(proc), SelectOk(proc_yielded))

\* a procfs enumeration ended after yielding an Err item and, later, an Ok
\* device
C18_Witness ==
    /\ proc_item = ItemNone
    /\ \E k, j \in 1..Len(proc_yielded) :
          /\ k < j
          /\ proc_yielded[k].tag = "Err"
          /\ proc_yielded[j].tag = "Ok"

(***************************************************************************)
(* Automatic backend selection (src/src/pci/mod.rs)                        *)
(***************************************************************************)
\* the variants of AutoProvider
AutoSysFS(provider) == [auto |-> "SysFS", inner |-> provider]
AutoProcFS(provider) == [auto |-> "ProcFS", inner |-> provider]
AutoNone == [auto |-> "None"]

\* SysBusBackend::try_init
sys_try_init ==
    IF roots.sysfs THEN QOk("SysFS") ELSE QErr("NotAvailable")

\* ProcBusBackend::try_init
proc_try_init ==
    IF roots.procfs THEN QOk("ProcFS") ELSE QErr("NotAvailable")

auto_try_init_procfs_first ==
    LET first == proc_try_init
    IN  IF first.tag = "Ok"
        THEN [attempts |-> <<"procfs">>, ret |-> first]
        ELSE [attempts |-> <<"procfs", "sysfs">>, ret |-> sys_try_init]

\* PciAutoIter::try_init: sysfs(()).or_else(proc)
auto_try_init ==
    LET first == sys_try_init
    IN  IF first.tag = "Ok"
        THEN [attempts |-> <<"sysfs">>, ret |-> first]
        ELSE [attempts |-> <<"sysfs", "procfs">>, ret |-> proc_try_init]

\* to_owned_dev: the handle is swapped with one that holds AutoProvider::None
to_owned_dev(h) ==
    [dev |-> h, pcidev |-> Handle(PciDevice(0, 0, 0, 0), AutoNone)]

\* SysBusProvider::$name(&mut dev)
sys_query(name, p) ==
    CASE name = "class" -> get_class(p)
      [] name = "vendor" -> get_vendor(p)
      [] name = "device" -> get_device(p)
      [] name = "revision" -> get_revision(p)
      [] name = "subsystem_vendor" -> get_susbystem_vid(p)
      [] name = "subsystem_device" -> get_susbystem_did(p)

\* ProcBusProvider::$name(&mut dev)
proc_query(name, buf) ==
    CASE name = "class" -> proc_get_class(buf)
      [] name = "vendor" -> proc_get_vendor(buf)
      [] name = "device" -> proc_get_device(buf)
      [] name = "revision" -> proc_get_revision(buf)
      [] name = "subsystem_vendor" -> proc_get_susbystem_vid(buf)
      [] name = "subsystem_device" -> proc_get_susbystem_did(buf)

delegate_without_restore(name, h) ==
    LET owned == to_owned_dev(h)
        provider == owned.dev.provider
    IN  IF provider.auto = "SysFS"
        THEN [pcidev |-> owned.pcidev,
              ret |-> sys_query(name, provider.inner.path).ret]
        ELSE IF provider.auto = "ProcFS"
        THEN [pcidev |-> owned.pcidev,
              ret |-> proc_query(name, provider.inner.buf)]
        ELSE [pcidev |-> owned.pcidev, ret |-> QErr("NotAvailable")]

\* delegate!: one generated query of AutoProvider; pcidev is what the handle
\* holds when the call returns
delegate(name, h) ==
    LET owned == to_owned_dev(h)
        provider == owned.dev.provider
    IN  IF provider.auto = "SysFS"
        THEN LET r == sys_query(name, provider.inner.path)
             IN  [pcidev |-> Handle(owned.dev, AutoSysFS([path |-> r.path])),
                  ret |-> r.ret]
        ELSE IF provider.auto = "ProcFS"
        THEN [pcidev |-> Handle(owned.dev, AutoProcFS(provider.inner)),
              ret |-> proc_query(name, provider.inner.buf)]
        ELSE [pcidev |-> Handle(owned.dev, provider),
              ret |-> QErr("NotAvailable")]

\* a SysFS arm that builds the device anew and forgets its address
wrap_sysfs_loses_address(it) ==
    IF it.tag = "Ok"
    THEN ItemOk(PciDevice(0, 0, 0, 0), AutoSysFS(it.provider))
    ELSE it

\* r.map(|d| PciDevice { .., provider: AutoProvider::SysFS(provider) })
wrap_sysfs(it) ==
    IF it.tag = "Ok"
    THEN ItemOk(it.dev, AutoSysFS(it.provider))
    ELSE it

\* r.map(|d| PciDevice { .., provider: AutoProvider::ProcFS(provider) })
wrap_procfs(it) ==
    IF it.tag = "Ok"
    THEN ItemOk(it.dev, AutoProcFS(it.provider))
    ELSE it

\* the directories and attribute files the selection is tried on; a root
\* that cannot be opened has no listing
AutoDirEntries ==
    {[io |-> "Ok", name |-> n] : n \in {"0000:00:1f.3", "0000:01:00.0", "z"}}
AutoBusEntries ==
    {[io |-> "Err", name |-> "", readable |-> FALSE, devs |-> <<>>],
     [io |-> "Ok", name |-> "devices", readable |-> FALSE, devs |-> <<>>],
     [io |-> "Ok", name |-> "00", readable |-> TRUE,
      devs |-> <<[io |-> "Ok", name |-> "1f.3", file |-> DevFile]>>]}
AutoFiles ==
    {[state |-> "ok",
      content |-> Bytes(<<"0", "x", "0", "3", "0", "0", "0", "0", "\n">>)],
     [state |-> "ok", content |-> Bytes(<<"0", "x", "1", "a", "f", "3">>)],
     [state |-> "ok", content |-> <<>>],
     [state |-> "missing", content |-> <<>>]}

AutoInit ==
    /\ AVIdle /\ ParseIdle /\ PwIdle
    /\ roots \in [sysfs : BOOLEAN, procfs : BOOLEAN]
    /\ attempts = <<>> /\ auto_iter = NotCalled
    /\ dir \in IF roots.sysfs THEN SeqsOf(AutoDirEntries, 0, MaxEntries)
               ELSE {<<>>}
    /\ dir_iter = <<>> /\ yielded = <<>> /\ item = NotCalled
    /\ path = <<>> /\ fs \in AutoFiles /\ ret = NotCalled
    /\ pcidev = NotCalled
    /\ proc \in IF roots.procfs THEN SeqsOf(AutoBusEntries, 0, MaxBuses)
                ELSE {<<>>}
    /\ bus_iter = <<>> /\ self_bus = BusNone
    /\ proc_yielded = <<>> /\ proc_item = NotCalled

\* PciAutoIter::try_init; the backend chosen opens its directory
TryInit ==
    /\ auto_iter = NotCalled
    /\ LET r == auto_try_init
       IN  /\ attempts' = r.attempts
           /\ auto_iter' = r.ret
           /\ dir_iter' = IF r.ret = QOk("SysFS") THEN dir ELSE dir_iter
           /\ bus_iter' = IF r.ret = QOk("ProcFS") THEN proc ELSE bus_iter
    /\ UNCHANGED <<roots, dir, yielded, item, path, fs, ret, pcidev, proc,
                   self_bus, proc_yielded, proc_item, avVars, parseVars,
                   pwVars>>

\* PciAutoIter::next on the SysFS variant; the caller keeps the device
AutoNextSysFS ==
    /\ auto_iter = QOk("SysFS") /\ item # ItemNone
    /\ LET r == sys_next(dir_iter)
           wrapped == wrap_sysfs(r.item)
       IN  /\ dir_iter' = r.dir_iter
           /\ item' = wrapped
           /\ yielded' = IF wrapped = ItemNone THEN yielded
                         ELSE Append(yielded, wrapped)
           /\ pcidev' = IF wrapped.tag = "Ok"
                        THEN Handle(wrapped.dev, wrapped.provider)
                        ELSE pcidev
    /\ UNCHANGED <<dir, path, fs, ret, proc, bus_iter, self_bus,
                   proc_yielded, proc_item, avVars, parseVars, autoVars,
                   pwVars>>

\* PciAutoIter::next on the ProcFS variant; the caller keeps the device
AutoNextProcFS ==
    /\ auto_iter = QOk("ProcFS") /\ proc_item # ItemNone
    /\ LET r == proc_next(bus_iter, self_bus)
           wrapped == wrap_procfs(r.item)
       IN  /\ bus_iter' = r.bus_iter
           /\ self_bus' = r.bus
           /\ proc_item' = wrapped
           /\ proc_yielded' = IF wrapped = ItemNone THEN proc_yielded
                              ELSE Append(proc_yielded, wrapped)
           /\ pcidev' = IF wrapped.tag = "Ok"
                        THEN Handle(wrapped.dev, wrapped.provider)
                        ELSE pcidev
    /\ UNCHANGED <<proc, avVars, parseVars, sysVars, autoVars, pwVars>>

\* the names delegate! is expanded with
QueryNames ==
    {"class", "vendor", "device", "revision", "subsystem_vendor",
     "subsystem_device"}

\* PciDevice<AutoProvider>::class(), vendor(), ...: one delegated query
AutoQuery ==
    /\ pcidev # NotCalled
    /\ \E name \in QueryNames :
          LET r == delegate(name, pcidev)
          IN  /\ pcidev' = r.pcidev
              /\ ret' = r.ret @@ [q |-> name]
    /\ UNCHANGED <<proc, bus_iter, self_bus, proc_yielded, proc_item, dir,
                   dir_iter, yielded, item, path, fs, avVars, parseVars,
                   autoVars, pwVars>>

\* is_gpu comparing the class byte with 0x02, the network class
is_gpu_network(class) ==
    IF class.tag # "Ok" THEN class
    ELSE QOk(Len(class.val) > 0 /\ class.val[1] = 2)

\* PciDevice::is_gpu over what self.class() returned: ? hands an error back,
\* first() is None on an empty class and the class byte otherwise
is_gpu(class) ==
    IF class.tag # "Ok" THEN class
    ELSE QOk(Len(class.val) > 0 /\ class.val[1] = 3)

\* PciDevice<AutoProvider>::is_gpu()
IsGpu ==
    /\ pcidev # NotCalled
    /\ LET r == delegate("class", pcidev)
       IN  /\ pcidev' = r.pcidev
           /\ ret' = is_gpu(r.ret) @@ [q |-> "is_gpu"]
    /\ UNCHANGED <<proc, bus_iter, self_bus, proc_yielded, proc_item, dir,
                   dir_iter, yielded, item, path, fs, avVars, parseVars,
                   autoVars, pwVars>>

AutoNext ==
    \/ TryInit
    \/ AutoNextSysFS
    \/ AutoNextProcFS
    \/ AutoQuery
    \/ IsGpu

\* backend selection, enumeration and queries through PciAutoIter
SpecAuto == AutoInit /\ [][AutoNext]_vars

\* C19: try_init tries sysfs first and procfs only when sysfs failed; it
\* returns SysFS whenever the sysfs root can be opened, ProcFS when only the
\* procfs root can, and the NotAvailable of the procfs attempt when neither.
C19_SysfsFirstThenProcfs ==
    auto_iter # NotCalled =>
        /\ attempts[1] = "sysfs"
        /\ roots.sysfs => attempts = <<"sysfs">> /\ auto_iter = QOk("SysFS")
        /\ ~roots.sysfs =>
              /\ attempts = <<"sysfs", "procfs">>
              /\ roots.procfs => auto_iter = QOk("ProcFS")
              /\ ~roots.procfs => auto_iter = QErr("NotAvailable")

\* sysfs failed, procfs was tried next and chosen
C19_Witness ==
    /\ attempts = <<"sysfs", "procfs">>
    /\ auto_iter = QOk("ProcFS")

\* what the provider of the variant held by h answers to the query
Concrete(name, h) ==
    IF h.provider.auto = "SysFS"
    THEN sys_query(name, h.provider.inner.path).ret
    ELSE proc_query(name, h.provider.inner.buf)

\* a step that is a query on the handle
QueryStep ==
    /\ pcidev # NotCalled /\ ret' # NotCalled /\ ret'.q \in QueryNames
    /\ UNCHANGED <<yielded, proc_yielded, item, proc_item, auto_iter>>

\* C20: a query on a PciDevice<AutoProvider> returns what the provider of the
\* active variant returns for the device, and when it returns the handle has
\* the domain, bus, device, function and provider variant it had before: a
\* handle that held SysFS or ProcFS never holds None.
C20_DelegateRestoresHandle ==
    [][QueryStep =>
        /\ pcidev'.domain = pcidev.domain /\ pcidev'.bus = pcidev.bus
        /\ pcidev'.device = pcidev.device
        /\ pcidev'.function = pcidev.function
        /\ pcidev'.provider.auto = pcidev.provider.auto
        /\ pcidev'.provider.auto \in {"SysFS", "ProcFS"}
        /\ ret'.tag = Concrete(ret'.q, pcidev).tag
        /\ ret'.val = Concrete(ret'.q, pcidev).val]_vars

\* the vendor query on a SysFS handle answered 0x1af3 and the handle still
\* holds the SysFS provider of 0000:00:1f.3
C20_Witness ==
    /\ pcidev # NotCalled /\ ret # NotCalled
    /\ pcidev.provider.auto = "SysFS"
    /\ pcidev.provider.inner.path = DevDir
    /\ pcidev.device = 31 /\ pcidev.function = 3
    /\ ret.q = "vendor" /\ ret.tag = "Ok" /\ ret.val = 6899

\* a step that is a call of is_gpu on the handle
IsGpuStep ==
    /\ pcidev # NotCalled /\ ret' # NotCalled /\ ret'.q = "is_gpu"
    /\ UNCHANGED <<yielded, proc_yielded, item, proc_item, auto_iter>>

\* C21: is_gpu returns Ok(true) exactly when the class query of the handle
\* succeeds and the first byte of the class is 0x03, Ok(false) when the query
\* succeeds with any other first byte (or with no byte at all), and the error
\* of the class query, unchanged, when the query fails.
C21_IsGpuIsClassThree ==
    [][IsGpuStep =>
        LET class == Concrete("class", pcidev)
        IN  /\ class.tag = "Ok" =>
                  /\ ret'.tag = "Ok"
                  /\ ret'.val = (Len(class.val) > 0 /\ class.val[1] = 3)
            /\ class.tag # "Ok" =>
                  /\ ret'.tag = class.tag
                  /\ ret'.val = class.val]_vars

\* is_gpu answered Ok(true) on a SysFS handle whose class file reads 0x030000
C21_Witness ==
    /\ pcidev # NotCalled /\ ret # NotCalled
    /\ pcidev.provider.auto = "SysFS"
    /\ ret.q = "is_gpu" /\ ret.tag = "Ok" /\ ret.val = TRUE
    /\ fs.state = "ok" /\ Len(fs.content) = 9

(***************************************************************************)
(* PwuId::get and the growable Vec<u8> buffer (src/src/components/name.rs) *)
(*                                                                         *)
(* A capacity is the number m * 2^e, kept as the pair of m and e: below 64 *)
(* it is [m, 0], from 64 on m is in 64..127.  Doubling adds one to e, so   *)
(* the capacity after 32 doublings is written with small numbers.          *)
(***************************************************************************)
\* the `0..32` of the retry loop
Attempts == 32

Capacity(m, e) == [m |-> m, e |-> e]

\* a <= b on capacities
CapLeq(a, b) == a.e < b.e \/ (a.e = b.e /\ a.m <= b.m)

\* usize::max
CapMax(a, b) == IF CapLeq(a, b) THEN b ELSE a

\* capacity * 2
Twice(a) == IF a.m < 64 THEN Capacity(2 * a.m, 0) ELSE Capacity(a.m, a.e + 1)

\* Vec::clear
clear(v) == [v EXCEPT !.len = 0]

\* Vec::reserve(additional) on an empty vector: nothing to do when the
\* capacity is enough, else the larger of twice the capacity and the need
reserve(v, additional) ==
    IF CapLeq(additional, v.cap) THEN v
    ELSE [v EXCEPT !.cap = CapMax(Twice(v.cap), additional)]

\* grow that asks for 64 bytes and never for more
grow_to_64(v) ==
    LET cleared == clear(v)
    IN  reserve(cleared, Capacity(64, 0))

\* <Vec<u8> as GrowableBackingBuffer>::grow
grow(v) ==
    LET cleared == clear(v)
    IN  reserve(cleared, Twice(CapMax(cleared.cap, Capacity(64, 0))))

\* what getpwuid_r can report: the entry, or no entry and an errno
GetpwuidResults == {"found", "EINTR", "EIO", "EMFILE", "ENFILE", "ERANGE",
                    "ENOENT"}

\* PwuId::try_get: the result of getpwuid_r mapped to Ok or a PwuIdErr; the
\* buffer comes back in both
try_get(v, libc) ==
    IF libc = "found" THEN [tag |-> "Ok", val |-> "passwd", buf |-> v]
    ELSE [tag |-> "Err",
          val |-> CASE libc = "EINTR" -> "SignalCaught"
                    [] libc = "EIO" -> "IOErr"
                    [] libc = "EMFILE" -> "InsufficientProcessFds"
                    [] libc = "ENFILE" -> "InsufficientSystemFds"
                    [] libc = "ERANGE" -> "BufferTooSmall"
                    [] OTHER -> "NotFound",
          buf |-> v]

\* a loop body that also retries after IOErr
get_body_retries_io(v, attempt, libc) ==
    LET r == try_get(v, libc)
    IN  IF r.tag = "Ok" \/ (r.tag = "Err" /\ r.val \notin
                               {"BufferTooSmall", "IOErr"})
        THEN [buf |-> v, err |-> IF r.tag = "Ok" THEN "none" ELSE r.val,
              ret |-> r]
        ELSE LET grown == grow(v)
             IN  [buf |-> grown, err |-> r.val,
                  ret |-> IF attempt + 1 < Attempts THEN NotCalled
                          ELSE [tag |-> "Err", val |-> "BufferTooSmall",
                                buf |-> grown]]

\* one pass of the body of `for attempt in 0..32` in PwuId::get, and the
\* return after the loop when the pass was the last one
get_body(v, attempt, libc) ==
    LET r == try_get(v, libc)
    IN  IF r.tag = "Ok" \/ r.val # "BufferTooSmall"
        THEN [buf |-> v, err |-> IF r.tag = "Ok" THEN "none" ELSE r.val,
              ret |-> r]
        ELSE LET grown == grow(v)
             IN  [buf |-> grown, err |-> r.val,
                  ret |-> IF attempt + 1 < Attempts THEN NotCalled
                          ELSE [tag |-> "Err", val |-> "BufferTooSmall",
                                buf |-> grown]]

\* the buffers PwuId::get is called with: Vec::with_capacity(1024) of
\* get_alloc and vectors of other capacities, empty or holding bytes
PwBuffers ==
    {[cap |-> Capacity(0, 0), len |-> 0],
     [cap |-> Capacity(1, 0), len |-> 0], [cap |-> Capacity(1, 0), len |-> 1],
     [cap |-> Capacity(40, 0), len |-> 40],
     [cap |-> Capacity(63, 0), len |-> 0],
     [cap |-> Capacity(64, 0), len |-> 0],
     [cap |-> Capacity(100, 0), len |-> 7],
     [cap |-> Capacity(64, 4), len |-> 0]}

PwInit ==
    /\ AVIdle /\ ParseIdle /\ SysIdle /\ ProcIdle /\ AutoIdle
    /\ pw_buf \in PwBuffers
    /\ pw_attempt = 0 /\ pw_err = "none" /\ pw_ret = NotCalled

\* PwuId::get: the next call of try_get and what the loop does with it
GetAttempt ==
    /\ pw_ret = NotCalled /\ pw_attempt < Attempts
    /\ \E libc \in GetpwuidResults :
          LET r == get_body(pw_buf, pw_attempt, libc)
          IN  /\ pw_buf' = r.buf
              /\ pw_err' = r.err
              /\ pw_ret' = r.ret
              /\ pw_attempt' = pw_attempt + 1
    /\ UNCHANGED <<avVars, parseVars, sysVars, procVars, autoVars>>

PwNext == GetAttempt

\* one call of PwuId::get with a Vec<u8>
SpecPwuId == PwInit /\ [][PwNext]_vars

\* the same call, running: getpwuid_r returns and the loop takes its next
\* pass whenever it has one to take
SpecPwuIdFair == SpecPwuId /\ WF_vars(GetAttempt)

\* C22: PwuId::get calls try_get at most 32 times; it returns Ok at the first
\* call that finds the entry, returns any error other than BufferTooSmall at
\* once without growing the buffer, grows and goes on only after
\* BufferTooSmall, and returns BufferTooSmall when all 32 calls failed with
\* it; every error return carries the buffer.
C22_GetRetriesOnlyTooSmall ==
    /\ [](/\ pw_attempt <= Attempts
          /\ pw_ret = NotCalled => pw_attempt < Attempts
          /\ pw_ret = NotCalled /\ pw_attempt > 0 =>
                pw_err = "BufferTooSmall"
          /\ pw_ret # NotCalled =>
                /\ pw_ret.buf = pw_buf
                /\ pw_ret.tag = "Ok" <=> pw_err = "none"
                /\ pw_ret.tag = "Err" => pw_ret.val = pw_err
                /\ pw_err = "BufferTooSmall" => pw_attempt = Attempts)
    /\ [][/\ pw_attempt' = pw_attempt + 1
          /\ pw_err' # "BufferTooSmall" => pw_buf' = pw_buf
          /\ pw_err' = "BufferTooSmall" => pw_buf' # pw_buf]_vars
    /\ <>(pw_ret # NotCalled)

\* all 32 calls failed with BufferTooSmall and the grown buffer came back
C22_Witness ==
    /\ pw_attempt = Attempts /\ pw_ret # NotCalled
    /\ pw_ret.tag = "Err" /\ pw_ret.val = "BufferTooSmall"
    /\ pw_ret.buf = pw_buf /\ pw_buf.cap = Capacity(64, 36)

\* C24: grow on a Vec<u8> leaves the vector empty, with a capacity that is at
\* least twice the capacity before and at least 128, so every retry of
\* PwuId::get runs with a larger capacity than the attempt before it.
C24_GrowDoublesAndClears ==
    [][pw_buf' # pw_buf =>
        /\ pw_buf'.len = 0
        /\ CapLeq(Twice(pw_buf.cap), pw_buf'.cap)
        /\ CapLeq(Capacity(64, 1), pw_buf'.cap)
        /\ ~CapLeq(pw_buf'.cap, pw_buf.cap)]_vars

\* a vector of capacity 100 holding 7 bytes was grown twice: it is empty, its
\* capacity is 400 and the third attempt is about to run
C24_Witness ==
    /\ pw_attempt = 2 /\ pw_ret = NotCalled
    /\ pw_buf = [cap |-> Capacity(100, 2), len |-> 0]

(***************************************************************************)
(* The enumerations are finite                                             *)
(***************************************************************************)
\* the device entries of the first-level entries
RECURSIVE DeviceEntries(_)
DeviceEntries(entries) ==
    IF entries = <<>> THEN 0
    ELSE Len(Head(entries).devs) + DeviceEntries(Tail(entries))

\* the entries of a procfs tree: first-level entries and device entries
EntryCount(tree) == Len(tree) + DeviceEntries(tree)

\* the entries a procfs backend has not read yet
EntriesLeft(it, cur) ==
    EntryCount(it) + (IF cur.tag = "Some" THEN Len(cur.devices) ELSE 0)

\* the items a complete traversal gives: one for a first-level entry that
\* fails (read error, unreadable directory, name that is no bus), none for
\* `devices`, and one for every device entry of a bus that was entered
RECURSIVE ItemsOfTree(_)
ItemsOfTree(entries) ==
    IF entries = <<>> THEN 0
    ELSE LET e == Head(entries)
             n == IF e.io = "Err" THEN 1
                  ELSE IF ProcName[e.name] = ProcName["devices"] THEN 0
                  ELSE IF ~e.readable THEN 1
                  ELSE IF ~parse_bus(ProcName[e.name]).ok THEN 1
                  ELSE Len(e.devs)
         IN  n + ItemsOfTree(Tail(entries))

\* C23: each backend is a finite sequence: every call of next() that yields
\* an item has read at least one more entry of the finite tree, so the items
\* yielded never outnumber the directory entries and the calls that yield
\* an item are at most that many; None is answered only when no first-level
\* entry and no device entry of an entered bus is left unread (each device
\* entry of such a bus has given its item).
C23_EnumerationIsFinite ==
    /\ [](/\ Len(yielded) + Len(dir_iter) <= Len(dir)
          /\ Len(proc_yielded) + EntriesLeft(bus_iter, self_bus)
                <= EntryCount(proc)
          /\ item = ItemNone => dir_iter = <<>>
          /\ proc_item = ItemNone =>
                /\ bus_iter = <<>> /\ self_bus = BusNone
                /\ Len(proc_yielded) = ItemsOfTree(proc))
    /\ [][/\ yielded' # yielded => Len(dir_iter') < Len(dir_iter)
          /\ proc_yielded' # proc_yielded =>
                EntriesLeft(bus_iter', self_bus')
                    < EntriesLeft(bus_iter, self_bus)]_vars

\* a procfs tree of two entered buses and three entries in all was read to
\* the end
C23_Witness ==
    /\ proc_item = ItemNone /\ Len(proc) = 2
    /\ EntryCount(proc) >= 3 /\ Len(proc_yielded) >= 2
    /\ bus_iter = <<>> /\ self_bus = BusNone

(***************************************************************************)
(* PciAutoIter against its backend                                         *)
(***************************************************************************)
\* all the items SysBusBackend yields on a directory, in order
RECURSIVE SysItems(_)
SysItems(it) ==
    LET r == sys_next(it)
    IN  IF r.item = ItemNone THEN <<>>
        ELSE <<r.item>> \o SysItems(r.dir_iter)

\* all the items ProcBusBackend yields on a tree, in order
RECURSIVE ProcItems(_, _)
ProcItems(it, cur) ==
    LET r == proc_next(it, cur)
    IN  IF r.item = ItemNone THEN <<>>
        ELSE <<r.item>> \o ProcItems(r.bus_iter, r.bus)

\* the item `a` of PciAutoIter is the item `b` of the backend, wrapped
SameItem(a, b, variant) ==
    /\ a.tag = b.tag
    /\ b.tag = "Err" => a.err = b.err
    /\ b.tag = "Ok" =>
          /\ a.dev = b.dev
          /\ a.provider.auto = variant
          /\ a.provider.inner = b.provider

\* C25: PciAutoIter yields, item for item, what the backend it selected
\* yields: an Err item is the backend's Err with the same error, an Ok item
\* has the backend's domain, bus, device and function and the backend's
\* provider wrapped in the variant of that backend, and it answers None when
\* and only when the backend has no item left.
C25_AutoIterYieldsBackendItems ==
    /\ auto_iter = QOk("SysFS") =>
          LET backend == SysItems(dir)
          IN  /\ Len(yielded) <= Len(backend)
              /\ \A i \in 1..Len(yielded) :
                    SameItem(yielded[i], backend[i], "SysFS")
              /\ item = ItemNone => Len(yielded) = Len(backend)
              /\ proc_yielded = <<>>
    /\ auto_iter = QOk("ProcFS") =>
          LET backend == ProcItems(proc, BusNone)
          IN  /\ Len(proc_yielded) <= Len(backend)
              /\ \A i \in 1..Len(proc_yielded) :
                    SameItem(proc_yielded[i], backend[i], "ProcFS")
              /\ proc_item = ItemNone => Len(proc_yielded) = Len(backend)
              /\ yielded = <<>>

\* a sysfs-backed PciAutoIter ended after yielding 0000:01:00.0 and then
\* 0000:00:1f.3, both with SysFS providers
C25_Witness ==
    /\ auto_iter = QOk("SysFS") /\ item = ItemNone
    /\ Len(yielded) = 2
    /\ yielded[1].tag = "Ok" /\ yielded[1].dev = PciDevice(0, 1, 0, 0)
    /\ yielded[1].provider.auto = "SysFS"
    /\ yielded[2].tag = "Ok" /\ yielded[2].dev = PciDevice(0, 0, 31, 3)

(***************************************************************************)
(* The sysfs provider's path                                               *)
(***************************************************************************)
\* the attribute files the six queries open
Attributes ==
    {"class", "vendor", "device", "subsystem_vendor", "subsystem_device",
     "revision"}

\* C26: whatever a sysfs attribute query returned (Ok, IOError for a missing
\* or unreadable file, InvalidDevice), the provider's path is the device
\* directory it was before the query, so after any sequence of queries the
\* next query opens <device directory>/<attribute> and never a path under
\* the attribute of an earlier query.
C26_PathRestored ==
    /\ path = DevDir
    /\ \A attribute \in Attributes :
          wrap_new(path, <<attribute>>).path = Append(DevDir, attribute)

\* the revision query answered InvalidDevice on a file too short for it and the
\* path is the device directory
C26_Witness ==
    /\ ret # NotCalled /\ ret.q = "revision"
    /\ ret.tag = "Err" /\ ret.val = "InvalidDevice"
    /\ path = DevDir /\ fs.state = "ok"

(***************************************************************************)
(* The procfs provider's buffer                                            *)
(***************************************************************************)
\* the offset just past the field a subsystem query reads, by header type
FieldEnd(name, h) ==
    CASE name = "subsystem_vendor" /\ h = 0 -> 49
      [] name = "subsystem_vendor" /\ h = 2 -> 68
      [] name = "subsystem_device" /\ h = 0 -> 51
      [] name = "subsystem_device" /\ h = 2 -> 66
      [] OTHER -> 0

\* C27: a provider from_devfile returned holds 16 to 72 bytes, the bytes of
\* the file; no query on it panics on an index, a subsystem query whose
\* field ends beyond the bytes loaded answers InvalidDevice, no query
\* changes the handle or its buffer, and a query repeated answers the same.
C27_QueriesStayInBuffer ==
    /\ [](pcidev # NotCalled =>
            LET b == ConfigOf(pcidev)
            IN  /\ Len(b) >= 16 /\ Len(b) <= 72
                /\ b = fs.content
                /\ ret.tag # "Panic"
                /\ ret.q # "from_devfile" =>
                      /\ ret.tag = proc_query(ret.q, b).tag
                      /\ ret.val = proc_query(ret.q, b).val
                /\ FieldEnd(ret.q, b[15]) > Len(b) =>
                      ret.tag = "Err" /\ ret.val = "InvalidDevice")
    /\ [][pcidev # NotCalled =>
            /\ pcidev' = pcidev
            /\ ret'.q = ret.q => ret' = ret]_vars

\* the subsystem_device query on a 16-byte provider of header type 0
\* answered InvalidDevice
C27_Witness ==
    /\ pcidev # NotCalled /\ Len(ConfigOf(pcidev)) = 16
    /\ ConfigOf(pcidev)[15] = 0
    /\ ret.q = "subsystem_device"
    /\ ret.tag = "Err" /\ ret.val = "InvalidDevice"

====
